---- MODULE Spec2Model ----
(***************************************************************************)
(* Model of the statistical core of ot_hub:                                *)
(*   - src/src/utils/calculateTCI.ts   (2PL IRT fit and TCI scoring)       *)
(*   - src/src/utils/chartUtils.ts     (transformLeaderboardData)          *)
(*   - src/src/utils/linearRegression.ts (least-squares fit)               *)
(*                                                                         *)
(* Numbers of the IRT part are fixed-point integers with Scale units per   *)
(* 1.0 (0.8 is 800); every product and quotient is rounded to the nearest  *)
(* unit.  Numbers of the regression part are binary floating-point values  *)
(* with a MantBits-bit significand and round-to-nearest-even, the          *)
(* arithmetic of an IEEE double with a narrower significand.               *)
(***************************************************************************)
EXTENDS Integers, Sequences, FiniteSets, TLC

VARIABLES
    cfg,        \* the IRT_CONFIG in force
    rows,       \* the raw leaderboard rows (RawLeaderboardData.rows)
    pc,         \* position of the running call: idle, optimize, fitted, done
    call,       \* the running call: kind, preserveExisting, run number
    entries,    \* the LeaderboardEntry array the call works on (mutated)
    entries0,   \* the same array as it was when the call started
    opt,        \* locals of optimize(): params, velocity, learningRate, ...
    shadow,     \* optimize() locals on the matrix with perturbed masked cells
    trace,      \* the optimizer states the running call went through
    firstFit,   \* trace and result of the first fitIRTParameters call
    irtParams,  \* the IRTParameters returned by fitIRTParameters
    probe,      \* result of calculateTCI / calculateTCIStderr on a record
    regData,    \* input of fitLinearRegression
    regFit,     \* result of fitLinearRegression
    band,       \* result of generateCombinedRegressionData
    forecast,   \* arguments and result of generateForecastData
    frontierArgs, \* arguments of computeUnifiedFrontierData
    frontier,   \* result of computeUnifiedFrontierData
    objective,  \* the loss and gradient optimize() is given at each iteration
    rankings,   \* argument and results of calculateTCIRankings, calculateRankings
    hook,       \* the state of a component that uses useLeaderboardData
    dropdown    \* a Dropdown of the navbar, its timers and the pointer

vars == <<cfg, rows, pc, call, entries, entries0, opt, shadow, trace,
          firstFit, irtParams, probe, regData, regFit, band, forecast,
          frontierArgs, frontier, objective, rankings, hook, dropdown>>

irtVars == <<cfg, rows, pc, call, entries, entries0, opt, shadow, trace,
             firstFit, irtParams, probe>>

regVars == <<regData, regFit, band, forecast>>

frontierVars == <<frontierArgs, frontier, objective>>

uiVars == <<rankings, hook, dropdown>>

-----------------------------------------------------------------------------
(* Bounds of the model *)

MaxModels == 2

MaxIter == 6

\* bits of the significand of a floating-point number (53 in a double)
MantBits == 8

\* longest input of fitLinearRegression
MaxPoints == 3

\* longest input of fitLinearRegression whose points lie on a line
MaxLinePoints == 5

\* numPoints of generateCombinedRegressionData (the caller passes 50)
BandPoints == 3

\* numHistoricalPoints of generateForecastData (50 by default)
HistPoints == 8

\* numForecastPoints of generateForecastData (30 by default)
ForecastPoints == 3

\* the longest list of entries given to computeUnifiedFrontierData
MaxEntries == 3

\* maxIterations of the runs of optimize() on a given objective
MaxLongIter == 40

\* the ticks the clock of the navbar runs
MaxClock == 8

-----------------------------------------------------------------------------
(* Optional numbers: number | null, and NaN for an undefined quotient *)

Null == [k |-> "null", v |-> 0]

NaN == [k |-> "nan", v |-> 0]

Num(x) == [k |-> "num", v |-> x]

IsNum(o) == o.k = "num"

\* +Infinity and -Infinity
Inf == [k |-> "inf", v |-> 1]

NegInf == [k |-> "inf", v |-> -1]

\* a / b as JavaScript divides: a quotient, or NaN or an infinity when b = 0
DivOpt(a, b, quotient) ==
    IF b # 0 THEN Num(quotient)
    ELSE IF a = 0 THEN NaN
    ELSE IF a > 0 THEN Inf ELSE NegInf

-----------------------------------------------------------------------------
(* Fixed-point arithmetic *)

Scale == 10 ^ 3

Abs(x) == IF x < 0 THEN -x ELSE x

Min(a, b) == IF a < b THEN a ELSE b

Max(a, b) == IF a > b THEN a ELSE b

Sgn(x) == IF x < 0 THEN -1 ELSE 1

\* a / b rounded to the nearest integer, halves up (b > 0)
RoundDiv(a, b) == (2 * a + b) \div (2 * b)

\* a * b on fixed-point numbers
MulFP(a, b) ==
    LET x == Max(Abs(a), Abs(b))
        y == Min(Abs(a), Abs(b))
    IN  Sgn(a) * Sgn(b) * ((x \div Scale) * y + RoundDiv((x % Scale) * y, Scale))

\* a / b on fixed-point numbers, b # 0
DivFP(a, b) ==
    LET x == Abs(a)
        y == Abs(b)
    IN  Sgn(a) * Sgn(b) * ((x \div y) * Scale + RoundDiv((x % y) * Scale, y))

RECURSIVE SqrtIter(_, _)
\* Newton's iteration from r down to the root; nxt is the next iterate
SqrtIter(n, r) ==
    CHOOSE root \in {IF nxt >= r THEN r ELSE SqrtIter(n, nxt) :
                        nxt \in {(r + n \div r) \div 2}} : TRUE

\* floor of the square root of a natural number
ISqrt(n) == IF n <= 0 THEN 0 ELSE SqrtIter(n, n)

\* Math.sqrt on a fixed-point number >= 0
SqrtFP(x) == ISqrt(x * Scale)

\* e^n for n = 1..13, in fixed point
EPow == <<2718, 7389, 20086, 54598, 148413, 403429, 1096633, 2980958,
          8103084, 22026466, 59874142, 162754791, 442413392>>

\* e^f for a fraction 0 <= f < 1: Taylor series to the sixth power
ExpFrac(f) ==
    LET f2 == MulFP(f, f)
        f3 == MulFP(f2, f)
        f4 == MulFP(f3, f)
        f5 == MulFP(f4, f)
        f6 == MulFP(f5, f)
    IN  Scale + f + RoundDiv(f2, 2) + RoundDiv(f3, 6) + RoundDiv(f4, 24)
          + RoundDiv(f5, 120) + RoundDiv(f6, 720)

\* Math.exp for t >= 0; saturates at e^13
ExpPos(t) ==
    LET n == t \div Scale
        f == t % Scale
    IN  IF n >= 13 THEN EPow[13]
        ELSE IF n = 0 THEN ExpFrac(f)
        ELSE MulFP(EPow[n], ExpFrac(f))

\* Math.exp
ExpFP(t) == IF t >= 0 THEN ExpPos(t) ELSE DivFP(Scale, ExpPos(-t))

Ln2 == RoundDiv(693147 * Scale, 10 ^ 6)

\* ln m for 1 <= m < 2: 2 atanh((m-1)/(m+1))
LnMant(m) ==
    LET u == DivFP(m - Scale, m + Scale)
        u2 == MulFP(u, u)
        u3 == MulFP(u2, u)
        u5 == MulFP(u3, u2)
        u7 == MulFP(u5, u2)
    IN  2 * (u + RoundDiv(u3, 3) + RoundDiv(u5, 5) + RoundDiv(u7, 7))

RECURSIVE LnFP(_)
\* Math.log for x > 0
LnFP(x) ==
    IF x >= 2 * Scale THEN Ln2 + LnFP(RoundDiv(x, 2))
    ELSE IF x < Scale THEN LnFP(2 * x) - Ln2
    ELSE LnMant(x)

\* Math.round(x * 10) / 10
Round1(x) == RoundDiv(x, Scale \div 10) * (Scale \div 10)

RECURSIVE SumFn(_, _)
\* f[1] + ... + f[n]
SumFn(f, n) == IF n = 0 THEN 0 ELSE SumFn(f, n - 1) + f[n]

-----------------------------------------------------------------------------
(* Core math functions *)

\* sigmoid: 1 / (1 + exp(-clip(x, -500, 500)))
sigmoid(x) ==
    LET clipped == Max(-500 * Scale, Min(500 * Scale, x))
    IN  DivFP(Scale, Scale + ExpFP(-clipped))

\* mutant: the clamp at [0.1, 0.9]
logitClampedAtNine(p) ==
    LET clamped == Max(Scale \div 10, Min(9 * (Scale \div 10), p))
    IN  LnFP(DivFP(clamped, Scale - clamped))

\* logit: ln(p / (1 - p)) at p clamped to [0.01, 0.99]
logit(p) ==
    LET clamped == Max(Scale \div 100, Min(99 * (Scale \div 100), p))
    IN  LnFP(DivFP(clamped, Scale - clamped))

-----------------------------------------------------------------------------
(* Configuration: constants/benchmarks.ts (IRT_CONFIG, BENCHMARK_KEYS) *)

BENCHMARK_KEYS == <<"teleqna", "telelogs", "telemath", "tsg", "teletables">>

NBench == Len(BENCHMARK_KEYS)

BenchSet == {BENCHMARK_KEYS[j] : j \in 1..NBench}

\* IRT_CONFIG as shipped: wide slope bounds, three scores required
IRT_CONFIG ==
    [regularization |-> [lambdaD |-> Scale \div 10, lambdaAlpha |-> Scale \div 10,
                         lambdaC |-> Scale \div 100],
     bounds |-> [alphaMin |-> Scale \div 10, alphaMax |-> 10 * Scale],
     maxIterations |-> MaxIter,
     minScoresRequired |-> 3,
     baseScore |-> 115 * Scale,
     scaleFactor |-> 20 * Scale]

\* A second admissible configuration: slope bounds the optimizer reaches
\* within MaxIter iterations, one score required
IRT_CONFIG_TIGHT ==
    [IRT_CONFIG EXCEPT !.bounds = [alphaMin |-> (95 * Scale) \div 100,
                                   alphaMax |-> (105 * Scale) \div 100],
                       !.minScoresRequired = 1]

Configs == {IRT_CONFIG, IRT_CONFIG_TIGHT}

-----------------------------------------------------------------------------
(* Raw leaderboard rows.  A benchmark cell of a row is the JSON array        *)
(* [score, stderr], [score] or absent (<<>>); scores are percentages.        *)
(* A model string is a sequence of tokens: words, " ", "(" and ")".          *)

Pct(n) == n * Scale

Tenths(n) == n * (Scale \div 10)

Absent == [b \in BenchSet |-> <<>>]

RowGpt ==
    [model |-> <<"gpt", " ", "(", "OpenAI", ")">>,
     bench |-> [Absent EXCEPT !["teleqna"] = <<Pct(80), Pct(2)>>,
                              !["telelogs"] = <<Pct(60)>>,
                              !["telemath"] = <<Pct(90), Tenths(15)>>],
     tci |-> <<>>]

RowLlama ==
    [model |-> <<"llama">>,
     bench |-> [Absent EXCEPT !["teleqna"] = <<Pct(20), Pct(3)>>,
                              !["telelogs"] = <<Pct(30), Pct(2)>>],
     tci |-> <<Pct(120), Tenths(15)>>]

RowFlat ==
    [model |-> <<"gpt", "(", "OpenAI", ")">>,
     bench |-> [b \in BenchSet |-> <<Pct(50), Pct(1)>>],
     tci |-> <<>>]

RowEmpty ==
    [model |-> <<"qwen", " ", "(", "Alibaba", ")">>,
     bench |-> Absent,
     tci |-> <<>>]

RowEdge ==
    [model |-> <<"mistral", "(", ")">>,
     bench |-> [Absent EXCEPT !["teleqna"] = <<Pct(95), Tenths(5)>>,
                              !["telelogs"] = <<Pct(99), Tenths(5)>>,
                              !["telemath"] = <<Pct(100)>>,
                              !["tsg"] = <<0>>],
     tci |-> <<Pct(88)>>]

RowOverride ==
    [model |-> <<" ", "phi", " ">>,
     bench |-> Absent,
     tci |-> <<Pct(101), Pct(2)>>]

RowChoices == {RowGpt, RowLlama, RowFlat, RowEmpty, RowEdge, RowOverride}

RowLists == UNION {[1..n -> RowChoices] : n \in 0..MaxModels}

-----------------------------------------------------------------------------
(* chartUtils.ts: rows to entries *)

\* arr?.[i] ?? null (i is 0-based)
At(arr, i) == IF Len(arr) > i THEN Num(arr[i + 1]) ELSE Null

RECURSIVE Trim(_)
\* String.prototype.trim on a token sequence
Trim(t) ==
    IF t = <<>> THEN t
    ELSE IF Head(t) = " " THEN Trim(Tail(t))
    ELSE IF t[Len(t)] = " " THEN Trim(SubSeq(t, 1, Len(t) - 1))
    ELSE t

\* /^(.+?)\s*\(([^)]+)\)$/ : the positions of "(" at which the pattern matches
ParenMatches(t) ==
    {i \in 2..(Len(t) - 2) :
        /\ t[i] = "("
        /\ t[Len(t)] = ")"
        /\ \A k \in (i + 1)..(Len(t) - 1) : t[k] # ")"}

\* parseModelAndProvider; the provider is kept as written
\* (normalizeProviderName only renames it)
parseModelAndProvider(combined) ==
    LET ms == ParenMatches(combined)
        i == CHOOSE m \in ms : \A o \in ms : m <= o
    IN  IF ms # {}
        THEN [model |-> Trim(SubSeq(combined, 1, i - 1)),
              provider |-> SubSeq(combined, i + 1, Len(combined) - 1)]
        ELSE [model |-> combined, provider |-> <<"Unknown">>]

\* calculateMean
calculateMean(scores) ==
    LET valid == SelectSeq(scores, IsNum)
        total == SumFn([i \in 1..Len(valid) |-> valid[i].v], Len(valid))
    IN  IF Len(valid) = 0 THEN Null ELSE Num(RoundDiv(total, Len(valid)))

\* the entry built for one row (the callback of response.rows.map)
rowToEntry(row) ==
    LET mp == parseModelAndProvider(row.model)
        score == [b \in BenchSet |-> At(row.bench[b], 0)]
    IN  [rank |-> 0,
         model |-> mp.model,
         provider |-> mp.provider,
         mean |-> calculateMean([j \in 1..NBench |-> score[BENCHMARK_KEYS[j]]]),
         score |-> score,
         stderr |-> [b \in BenchSet |-> At(row.bench[b], 1)],
         tci |-> At(row.tci, 0),
         tci_stderr |-> At(row.tci, 1)]

rowsToEntries(rs) == [i \in 1..Len(rs) |-> rowToEntry(rs[i])]

-----------------------------------------------------------------------------
(* calculateTCI.ts: score matrix *)

\* extractParams: D, alpha, C as functions of the 1-based index
extractParams(params, nBenchmarks) ==
    [D |-> [j \in 1..nBenchmarks |-> params[j]],
     alpha |-> [j \in 1..nBenchmarks |-> params[nBenchmarks + j]],
     C |-> [i \in 1..(Len(params) - 2 * nBenchmarks) |-> params[2 * nBenchmarks + i]]]

\* mutant: a score of 0 taken for a missing one
buildScoreMatrixTruthy(es) ==
    [scores |-> [i \in 1..Len(es) |->
                    [j \in 1..NBench |->
                        LET score == es[i].score[BENCHMARK_KEYS[j]]
                        IN  IF IsNum(score) THEN RoundDiv(score.v, 100) ELSE 0]],
     mask |-> [i \in 1..Len(es) |->
                    [j \in 1..NBench |->
                        /\ IsNum(es[i].score[BENCHMARK_KEYS[j]])
                        /\ es[i].score[BENCHMARK_KEYS[j]].v # 0]],
     models |-> [i \in 1..Len(es) |-> es[i].model]]

\* buildScoreMatrix
buildScoreMatrix(es) ==
    [scores |-> [i \in 1..Len(es) |->
                    [j \in 1..NBench |->
                        LET score == es[i].score[BENCHMARK_KEYS[j]]
                        IN  IF IsNum(score) THEN RoundDiv(score.v, 100) ELSE 0]],
     mask |-> [i \in 1..Len(es) |->
                    [j \in 1..NBench |-> IsNum(es[i].score[BENCHMARK_KEYS[j]])]],
     models |-> [i \in 1..Len(es) |-> es[i].model]]

\* A score matrix with the same mask and the same observed cells, and an
\* arbitrary stored value in every masked-out cell
perturbMatrix(matrix, seed) ==
    [matrix EXCEPT !.scores =
        [i \in 1..Len(matrix.scores) |->
            [j \in 1..NBench |->
                IF matrix.mask[i][j] THEN matrix.scores[i][j]
                ELSE (((seed + 3 * i + 7 * j) % 10) + 1) * (Scale \div 10)]]]

-----------------------------------------------------------------------------
(* calculateTCI.ts: objective, gradient, projection *)

\* mutant: the mask test dropped
cellCountsAlways(matrix, i, j) == TRUE

\* whether cell (i, j) takes part in the loss and the gradient
cellCounts(matrix, i, j) == matrix.mask[i][j]

\* loss and partial derivatives of one cell, from diff and sigmoidGrad
cellDerivatives(diff, a, cd, sigmoidGrad) ==
    [loss |-> MulFP(diff, diff),
     gD |-> MulFP(MulFP(2 * diff, a), sigmoidGrad),
     gAlpha |-> MulFP(MulFP(-2 * diff, cd), sigmoidGrad),
     gC |-> MulFP(MulFP(-2 * diff, a), sigmoidGrad)]

\* one cell with score s, slope a, cd = C[i] - D[j] and prediction pred
cellFromPrediction(s, a, cd, pred) ==
    cellDerivatives(s - pred, a, cd, MulFP(pred, Scale - pred))

\* the body of the double loop for cell (i, j)
cellTerms(matrix, ex, i, j) ==
    IF ~cellCounts(matrix, i, j)
    THEN [loss |-> 0, gD |-> 0, gAlpha |-> 0, gC |-> 0]
    ELSE cellFromPrediction(matrix.scores[i][j], ex.alpha[j], ex.C[i] - ex.D[j],
                            sigmoid(MulFP(ex.alpha[j], ex.C[i] - ex.D[j])))

\* loss and gradient from the cell terms t, with the regularization terms added
objectiveFromCells(ex, t, nModels, reg) ==
    [loss |->
        SumFn([i \in 1..nModels |-> SumFn([j \in 1..NBench |-> t[i][j].loss], NBench)],
              nModels)
        + SumFn([j \in 1..NBench |->
                    MulFP(MulFP(reg.lambdaD, ex.D[j]), ex.D[j])
                    + MulFP(MulFP(reg.lambdaAlpha, ex.alpha[j] - Scale),
                            ex.alpha[j] - Scale)], NBench)
        + SumFn([i \in 1..nModels |-> MulFP(MulFP(reg.lambdaC, ex.C[i]), ex.C[i])],
                nModels),
     gradient |->
        [j \in 1..NBench |->
            SumFn([i \in 1..nModels |-> t[i][j].gD], nModels)
            + MulFP(2 * reg.lambdaD, ex.D[j])]
        \o [j \in 1..NBench |->
            SumFn([i \in 1..nModels |-> t[i][j].gAlpha], nModels)
            + MulFP(2 * reg.lambdaAlpha, ex.alpha[j] - Scale)]
        \o [i \in 1..nModels |->
            SumFn([j \in 1..NBench |-> t[i][j].gC], NBench)
            + MulFP(2 * reg.lambdaC, ex.C[i])]]

\* loss and gradient at the extracted parameters ex
objectiveAt(ex, matrix, reg) ==
    objectiveFromCells(ex,
        [i \in 1..Len(matrix.models) |-> [j \in 1..NBench |-> cellTerms(matrix, ex, i, j)]],
        Len(matrix.models), reg)

\* computeObjectiveAndGradient
computeObjectiveAndGradient(params, matrix, reg) ==
    objectiveAt(extractParams(params, NBench), matrix, reg)

\* mutant: the upper bound forgotten
clipAlphaLowerOnly(a) == Max(cfg.bounds.alphaMin, a)

\* the clip of one slope value to [alphaMin, alphaMax]
clipAlpha(a) == Max(cfg.bounds.alphaMin, Min(cfg.bounds.alphaMax, a))

\* projectAlpha
projectAlpha(params, nBenchmarks) ==
    [j \in 1..Len(params) |->
        IF j > nBenchmarks /\ j <= 2 * nBenchmarks
        THEN clipAlpha(params[j]) ELSE params[j]]

-----------------------------------------------------------------------------
(* calculateTCI.ts: optimize *)

Zeros(n) == [i \in 1..n |-> 0]

Ones(n) == [i \in 1..n |-> Scale]

\* mutant: the learning rate kept in a variable that outlives the call
optimizeInitStale(matrix) ==
    [params |-> Zeros(NBench) \o Ones(NBench) \o Zeros(Len(matrix.models)),
     learningRate |-> IF opt.learningRate # 0 THEN opt.learningRate ELSE Scale \div 10,
     velocity |-> Zeros(2 * NBench + Len(matrix.models)),
     prevLoss |-> Inf,
     iter |-> 0,
     stopped |-> FALSE,
     loss |-> Null,
     gradient |-> <<>>]

\* the locals of optimize() before the first iteration
optimizeInit(matrix) ==
    LET nBenchmarks == NBench
        nModels == Len(matrix.models)
        params == Zeros(nBenchmarks) \o Ones(nBenchmarks) \o Zeros(nModels)
    IN  [params |-> params,
         learningRate |-> Scale \div 10,
         velocity |-> Zeros(Len(params)),
         prevLoss |-> Inf,
         iter |-> 0,
         stopped |-> FALSE,
         loss |-> Null,
         gradient |-> <<>>]

\* x < 10^-e for a fixed-point x
BelowEps(x, e) == x * ((10 ^ e) \div Scale) < 1

\* x > 10^-e for a fixed-point x
AboveEps(x, e) == x * ((10 ^ e) \div Scale) > 1

\* loss > prevLoss
lossWorse(o, loss) == IsNum(o.prevLoss) /\ loss > o.prevLoss.v

\* loss < prevLoss - 1e-6
lossBetter(o, loss) ==
    IF IsNum(o.prevLoss) THEN AboveEps(o.prevLoss.v - loss, 6)
    ELSE o.prevLoss = Inf

\* mutant: the growth of the learning rate without its cap
nextLearningRateUncapped(o, loss) ==
    IF lossWorse(o, loss) THEN MulFP(o.learningRate, Scale \div 2)
    ELSE IF lossBetter(o, loss)
         THEN MulFP(o.learningRate, (105 * Scale) \div 100)
         ELSE o.learningRate

\* the adaptive learning rate
nextLearningRate(o, loss) ==
    IF lossWorse(o, loss) THEN MulFP(o.learningRate, Scale \div 2)
    ELSE IF lossBetter(o, loss)
         THEN Min(MulFP(o.learningRate, (105 * Scale) \div 100), Scale \div 2)
         ELSE o.learningRate

\* the velocity after the halving on a worse loss and the momentum update
nextVelocity(o, loss, gradient, learningRate) ==
    [i \in 1..Len(o.velocity) |->
        MulFP((9 * Scale) \div 10,
              IF lossWorse(o, loss) THEN MulFP(o.velocity[i], Scale \div 2)
              ELSE o.velocity[i])
        - MulFP(learningRate, gradient[i])]

\* Math.sqrt(gradient.reduce((sum, g) => sum + g * g, 0))
gradNorm(gradient) ==
    SqrtFP(SumFn([i \in 1..Len(gradient) |-> MulFP(gradient[i], gradient[i])],
                 Len(gradient)))

\* mutant: the change of the loss not looked at
convergedOnGradientOnly(o, loss, gradient) == BelowEps(gradNorm(gradient), 6)

\* the convergence check
converged(o, loss, gradient) ==
    \/ BelowEps(gradNorm(gradient), 6)
    \/ IsNum(o.prevLoss) /\ BelowEps(Abs(loss - o.prevLoss.v), 8)

\* the locals after the update with the new velocity
stepWith(o, loss, gradient, learningRate, velocity, stop) ==
    [params |-> projectAlpha([i \in 1..Len(o.params) |-> o.params[i] + velocity[i]],
                             NBench),
     learningRate |-> learningRate,
     velocity |-> velocity,
     prevLoss |-> IF stop THEN o.prevLoss ELSE Num(loss),
     iter |-> o.iter + 1,
     stopped |-> stop,
     loss |-> Num(loss),
     gradient |-> gradient]

\* the body of the loop given the loss and gradient of this iteration
stepFrom(o, og) ==
    stepWith(o, og.loss, og.gradient, nextLearningRate(o, og.loss),
             nextVelocity(o, og.loss, og.gradient, nextLearningRate(o, og.loss)),
             converged(o, og.loss, og.gradient))

\* the body of the loop when the loss and the gradient are NaN: no
\* comparison with NaN is true, so the learning rate is kept and the loop
\* goes on.  The velocity and the parameters are NaN from here on: the
\* record keeps their last numbers and loss = NaN marks them
stepOnNaN(o) ==
    [params |-> o.params,
     learningRate |-> o.learningRate,
     velocity |-> o.velocity,
     prevLoss |-> NaN,
     iter |-> o.iter + 1,
     stopped |-> FALSE,
     loss |-> NaN,
     gradient |-> o.gradient]

\* one iteration of the loop of optimize()
optimizeIteration(o, matrix, reg) ==
    stepFrom(o, computeObjectiveAndGradient(o.params, matrix, reg))

\* the loop of optimize() has ended: by break or by iter = maxIter
optimizeDone(o, maxIter) == o.stopped \/ o.iter >= maxIter

\* what optimize() returns
optimizeResult(o, matrix, reg) ==
    [params |-> o.params,
     loss |-> computeObjectiveAndGradient(o.params, matrix, reg).loss]

-----------------------------------------------------------------------------
(* calculateTCI.ts: fitIRTParameters *)

\* Object.fromEntries(keys.map((k, i) => [k, vals[i]])): the last pair of a key wins
fromEntries(keys, vals) ==
    [k \in {keys[i] : i \in 1..Len(keys)} |->
        vals[CHOOSE i \in 1..Len(keys) :
                /\ keys[i] = k
                /\ \A o \in 1..Len(keys) : keys[o] = k => o <= i]]

\* createDefaultParameters
createDefaultParameters(models) ==
    [difficulty |-> fromEntries(BENCHMARK_KEYS, Zeros(NBench)),
     slope |-> fromEntries(BENCHMARK_KEYS, Ones(NBench)),
     capability |-> fromEntries(models, Zeros(Len(models))),
     fitResidual |-> Inf,
     nModels |-> Len(models),
     nBenchmarks |-> NBench]

\* matrix.mask.some(row => row.some(v => v))
hasValidScores(matrix) ==
    \E i \in 1..Len(matrix.mask) : \E j \in 1..NBench : matrix.mask[i][j]

\* mutant: the hasValidScores test dropped
takesDefaultPathEmptyOnly(es) == Len(es) = 0

\* fitIRTParameters returns the default parameters without optimizing
takesDefaultPath(es) == Len(es) = 0 \/ ~hasValidScores(buildScoreMatrix(es))

\* mutant: the default parameters built without the model names
fitDefaultNoModels(es) == createDefaultParameters(<<>>)

\* the default parameters fitIRTParameters returns
fitDefault(es) ==
    IF Len(es) = 0 THEN createDefaultParameters(<<>>)
    ELSE createDefaultParameters(buildScoreMatrix(es).models)

\* the regularization fitIRTParameters passes to optimize
fitRegularization(matrix) ==
    LET nValid == SumFn([i \in 1..Len(matrix.mask) |->
                        Cardinality({j \in 1..NBench : matrix.mask[i][j]})],
                        Len(matrix.mask))
        nParams == Len(matrix.models) + 2 * NBench
        sparsityMultiplier == IF nValid < nParams THEN 2 ELSE 1
    IN  [lambdaD |-> cfg.regularization.lambdaD * sparsityMultiplier,
         lambdaAlpha |-> cfg.regularization.lambdaAlpha * sparsityMultiplier,
         lambdaC |-> cfg.regularization.lambdaC * sparsityMultiplier]

\* the IRTParameters fitIRTParameters builds from optimize's result
fitResult(matrix, res) ==
    LET ex == extractParams(res.params, NBench)
    IN  [difficulty |-> fromEntries(BENCHMARK_KEYS, ex.D),
         slope |-> fromEntries(BENCHMARK_KEYS, ex.alpha),
         capability |-> fromEntries(matrix.models, ex.C),
         fitResidual |-> Num(res.loss),
         nModels |-> Len(matrix.models),
         nBenchmarks |-> NBench]

-----------------------------------------------------------------------------
(* calculateTCI.ts: TCI and its standard error *)

\* the BenchmarkScore of one benchmark (observed = score / 100)
benchmarkScore(entry, bench) ==
    [bench |-> bench,
     score |-> entry.score[bench],
     observed |-> RoundDiv(entry.score[bench].v, 100),
     stderr |-> IF IsNum(entry.stderr[bench])
                THEN Num(RoundDiv(entry.stderr[bench].v, 100))
                ELSE Null]

HasScore(s) == IsNum(s.score)

\* extractBenchmarkScores
extractBenchmarkScores(entry) ==
    SelectSeq([j \in 1..NBench |-> benchmarkScore(entry, BENCHMARK_KEYS[j])], HasScore)

\* mutant: the threshold test off by one
tooFewScoresInclusive(n) == n <= cfg.minScoresRequired

\* scores.length < IRT_CONFIG.minScoresRequired
tooFewScores(n) == n < cfg.minScoresRequired

\* map[key] ?? fallback
Lookup(map, key, fallback) == IF key \in DOMAIN map THEN map[key] ELSE fallback

\* the slope of the benchmark of score s
slopeOf(irt, s) == Lookup(irt.slope, s.bench, Scale)

\* totalWeight
totalWeight(scores, irt) ==
    SumFn([i \in 1..Len(scores) |-> slopeOf(irt, scores[i])], Len(scores))

\* weightedCapability
weightedCapability(scores, irt) ==
    SumFn([i \in 1..Len(scores) |->
              MulFP(logit(scores[i].observed) + Lookup(irt.difficulty, scores[i].bench, 0),
                    slopeOf(irt, scores[i]))], Len(scores))

\* the rounded TCI of a raw capability
tciOfCapability(rawCapability) ==
    IF ~IsNum(rawCapability) THEN rawCapability
    ELSE Num(Round1(cfg.baseScore + MulFP(rawCapability.v, cfg.scaleFactor)))

\* weightedCapability / totalWeight
rawCapabilityOf(weighted, total) == DivOpt(weighted, total, DivFP(weighted, total))

\* calculateTCI after extractBenchmarkScores
tciOfScores(scores, irt) ==
    IF tooFewScores(Len(scores)) THEN Null
    ELSE tciOfCapability(rawCapabilityOf(weightedCapability(scores, irt),
                                         totalWeight(scores, irt)))

\* calculateTCI
calculateTCI(entry, irt) == tciOfScores(extractBenchmarkScores(entry), irt)

\* the variance of one score, in units of 1 / Scale^2
scoreVariance(s) ==
    IF IsNum(s.stderr) THEN s.stderr.v * s.stderr.v
    ELSE MulFP(Scale \div 50, Scale + MulFP(Scale - s.observed, Scale \div 2))
         * MulFP(Scale \div 50, Scale + MulFP(Scale - s.observed, Scale \div 2))

\* 1 / (p * (1 - p)) at the clamped score
logitDerivative(observed) ==
    DivFP(Scale, MulFP(Max(Scale \div 100, Min(99 * (Scale \div 100), observed)),
                       Scale - Max(Scale \div 100, Min(99 * (Scale \div 100), observed))))

\* (alpha_b * logitDerivative) ** 2 * variance
varianceTerm(w, variance) == MulFP(MulFP(w, w), variance)

\* varianceSum, in units of 1 / Scale^2
varianceSum(scores, irt) ==
    SumFn([i \in 1..Len(scores) |->
              varianceTerm(MulFP(slopeOf(irt, scores[i]),
                                 logitDerivative(scores[i].observed)),
                           scoreVariance(scores[i]))], Len(scores))

\* the rounded standard error from scaleFactor / totalWeight and varianceSum
stderrOf(ratio, vsum) ==
    IF ~IsNum(ratio) THEN (IF vsum = 0 THEN NaN ELSE Inf)
    ELSE Num(Round1(ISqrt(MulFP(MulFP(ratio.v, ratio.v), vsum))))

\* scaleFactor / totalWeight
weightRatio(total) == DivOpt(cfg.scaleFactor, total, DivFP(cfg.scaleFactor, total))

\* calculateTCIStderr after extractBenchmarkScores
stderrOfScores(scores, irt) ==
    IF tooFewScores(Len(scores)) THEN Null
    ELSE stderrOf(weightRatio(totalWeight(scores, irt)), varianceSum(scores, irt))

\* calculateTCIStderr
calculateTCIStderr(entry, irt) == stderrOfScores(extractBenchmarkScores(entry), irt)

\* mutant: the null test of the skip inverted
keepsExistingInverted(entry, preserveExisting) == preserveExisting /\ entry.tci = Null

\* whether the loop of calculateAllTCI skips the entry
keepsExisting(entry, preserveExisting) == preserveExisting /\ entry.tci # Null

\* mutant: the loop starts at the second entry
scoreEntriesFromSecond(es, irt, preserveExisting) ==
    [i \in 1..Len(es) |->
        IF i = 1 \/ keepsExisting(es[i], preserveExisting) THEN es[i]
        ELSE [es[i] EXCEPT !.tci = calculateTCI(es[i], irt),
                           !.tci_stderr = calculateTCIStderr(es[i], irt)]]

\* mutant: the loop assigns tci and leaves tci_stderr as it was
scoreEntriesTciOnly(es, irt, preserveExisting) ==
    [i \in 1..Len(es) |->
        IF keepsExisting(es[i], preserveExisting) THEN es[i]
        ELSE [es[i] EXCEPT !.tci = calculateTCI(es[i], irt)]]

\* the loop of calculateAllTCI over the entries
scoreEntries(es, irt, preserveExisting) ==
    [i \in 1..Len(es) |->
        IF keepsExisting(es[i], preserveExisting) THEN es[i]
        ELSE [es[i] EXCEPT !.tci = calculateTCI(es[i], irt),
                           !.tci_stderr = calculateTCIStderr(es[i], irt)]]

-----------------------------------------------------------------------------
(* chartUtils.ts: the sort and the ranks of transformLeaderboardData *)

\* mutant: entries without a mean sort first
sortsAfterNullFirst(a, b) ==
    IF a.mean = Null /\ b.mean = Null THEN FALSE
    ELSE IF a.mean = Null THEN FALSE
    ELSE IF b.mean = Null THEN TRUE
    ELSE b.mean.v - a.mean.v > 0

\* the comparator of entriesWithTCI.sort: a goes after b
sortsAfter(a, b) ==
    IF a.mean = Null /\ b.mean = Null THEN FALSE
    ELSE IF a.mean = Null THEN TRUE
    ELSE IF b.mean = Null THEN FALSE
    ELSE b.mean.v - a.mean.v > 0

RECURSIVE insertSorted(_, _)
\* x inserted into a sorted list, after every element it does not precede
insertSorted(sorted, x) ==
    IF sorted = <<>> THEN <<x>>
    ELSE IF sortsAfter(sorted[Len(sorted)], x)
         THEN Append(insertSorted(SubSeq(sorted, 1, Len(sorted) - 1), x),
                     sorted[Len(sorted)])
         ELSE Append(sorted, x)

RECURSIVE sortEntries(_)
\* Array.prototype.sort (stable) with the comparator above
sortEntries(es) ==
    IF es = <<>> THEN <<>>
    ELSE insertSorted(sortEntries(SubSeq(es, 1, Len(es) - 1)), es[Len(es)])

\* entriesWithTCI.forEach((entry, index) => entry.rank = index + 1)
assignRanks(es) == [i \in 1..Len(es) |-> [es[i] EXCEPT !.rank = i]]

\* the preserveExisting argument transformLeaderboardData passes to calculateAllTCI
transformPreserves == FALSE

-----------------------------------------------------------------------------
(* Floating-point numbers of linearRegression.ts.  A number is m * 2^e with *)
(* m = 0, e = 0 or 2^(MantBits-1) <= |m| < 2^MantBits; every operation      *)
(* returns the exact result rounded to the nearest number, ties to even.    *)
(* NaN and the two infinities are the results of 0/0 and x/0; the exponent  *)
(* is unbounded (no overflow, no underflow) and zero has no sign.           *)

Pow2(k) == 2 ^ k

Float(m, e) == [m |-> m, e |-> e]

FZero == Float(0, 0)

FNaN == Float(0, 1)

FInf == Float(1, 0)

FNegInf == Float(-1, 0)

IsNaN(f) == f = FNaN

IsInf(f) == f = FInf \/ f = FNegInf

\* the infinity with the sign of the product of two non-zero significands
SignedInf(ma, mb) == IF (ma < 0) = (mb < 0) THEN FInf ELSE FNegInf

\* the number of bits of a positive integer
BitLen(a) == CHOOSE k \in 1..30 : Pow2(k) > a /\ Pow2(k - 1) <= a

RoundNearestEven(q, r, half) ==
    IF r > half \/ (r = half /\ q % 2 = 1) THEN q + 1 ELSE q

ShiftRight(a, k) ==
    RoundNearestEven(a \div Pow2(k), a % Pow2(k), Pow2(k - 1))

Renormalize(q, e) ==
    IF q = Pow2(MantBits) THEN Float(Pow2(MantBits - 1), e + 1) ELSE Float(q, e)

NormalizeBits(a, e, len) ==
    IF len > MantBits
    THEN Renormalize(ShiftRight(a, len - MantBits), e + (len - MantBits))
    ELSE Float(a * Pow2(MantBits - len), e - (MantBits - len))

Negate(f) == Float(-f.m, f.e)

\* the number nearest to m * 2^e
RoundFloat(m, e) ==
    IF m = 0 THEN FZero
    ELSE IF m < 0 THEN Negate(NormalizeBits(-m, e, BitLen(-m)))
    ELSE NormalizeBits(m, e, BitLen(m))

FromInt(i) == RoundFloat(i, 0)

FOne == FromInt(1)

\* a + b for a.e >= b.e; a summand below a quarter of the last place of the
\* other does not change it
FAddAligned(a, b) ==
    IF a.m = 0 THEN b
    ELSE IF b.m = 0 THEN a
    ELSE IF a.e - b.e > MantBits + 2 THEN a
    ELSE RoundFloat(a.m * Pow2(a.e - b.e) + b.m, b.e)

FAddFinite(a, b) == IF a.e >= b.e THEN FAddAligned(a, b) ELSE FAddAligned(b, a)

FAdd(a, b) ==
    IF IsNaN(a) \/ IsNaN(b) THEN FNaN
    ELSE IF IsInf(a) THEN (IF IsInf(b) /\ a # b THEN FNaN ELSE a)
    ELSE IF IsInf(b) THEN b
    ELSE FAddFinite(a, b)

FSub(a, b) == FAdd(a, Negate(b))

FMulFinite(a, b) == RoundFloat(a.m * b.m, a.e + b.e)

FMul(a, b) ==
    IF IsNaN(a) \/ IsNaN(b) THEN FNaN
    ELSE IF IsInf(a) \/ IsInf(b)
    THEN (IF a.m = 0 \/ b.m = 0 THEN FNaN ELSE SignedInf(a.m, b.m))
    ELSE FMulFinite(a, b)

\* num / den * 2^e for positive integers: MantBits + 2 quotient bits and a
\* sticky bit for the remainder
FDivMag(num, den, e) ==
    RoundFloat(2 * (num \div den) + (IF num % den = 0 THEN 0 ELSE 1), e)

\* a / b for finite a and b, b # 0
FDivFinite(a, b) ==
    IF a.m = 0 THEN FZero
    ELSE IF (a.m < 0) = (b.m < 0)
    THEN FDivMag(Abs(a.m) * Pow2(MantBits + 2), Abs(b.m),
                 a.e - b.e - (MantBits + 3))
    ELSE Negate(FDivMag(Abs(a.m) * Pow2(MantBits + 2), Abs(b.m),
                        a.e - b.e - (MantBits + 3)))

\* a / b: x / 0 is an infinity and 0 / 0 is NaN
FDiv(a, b) ==
    IF IsNaN(a) \/ IsNaN(b) THEN FNaN
    ELSE IF IsInf(a) THEN (IF IsInf(b) THEN FNaN ELSE SignedInf(a.m, IF b.m < 0 THEN -1 ELSE 1))
    ELSE IF IsInf(b) THEN FZero
    ELSE IF b.m = 0 THEN (IF a.m = 0 THEN FNaN ELSE SignedInf(a.m, 1))
    ELSE FDivFinite(a, b)

\* Math.sqrt: the exponent is made even and the significand carries
\* MantBits + 2 bits and a sticky bit
FSqrtScaled(s, e) ==
    RoundFloat(2 * ISqrt(s) + (IF ISqrt(s) * ISqrt(s) = s THEN 0 ELSE 1),
               (e \div 2) - 1)

FSqrtFinite(a) ==
    IF (a.e - (MantBits + 4)) % 2 = 0
    THEN FSqrtScaled(a.m * Pow2(MantBits + 4), a.e - (MantBits + 4))
    ELSE FSqrtScaled(a.m * Pow2(MantBits + 5), a.e - (MantBits + 5))

FSqrt(a) ==
    IF IsNaN(a) \/ a.m < 0 THEN FNaN
    ELSE IF IsInf(a) \/ a.m = 0 THEN a
    ELSE FSqrtFinite(a)

\* a < b and a <= b: the sign of the rounded difference is the sign of the
\* difference; every comparison with NaN is false
FLess(a, b) ==
    IF IsNaN(a) \/ IsNaN(b) \/ a = b THEN FALSE
    ELSE IF IsInf(a) THEN a = FNegInf
    ELSE IF IsInf(b) THEN b = FInf
    ELSE FAddFinite(a, Negate(b)).m < 0

FLeq(a, b) == ~IsNaN(a) /\ ~IsNaN(b) /\ (a = b \/ FLess(a, b))

FAbs(f) == Float(Abs(f.m), f.e)

\* values.reduce((sum, v) => sum + v, 0) over the first k values
RECURSIVE SumTo(_, _)
SumTo(values, k) ==
    IF k = 0 THEN FZero ELSE FAdd(SumTo(values, k - 1), values[k])

reduceSum(values) == SumTo(values, Len(values))

-----------------------------------------------------------------------------
(* linearRegression.ts: fitLinearRegression *)

\* a DataPoint; releaseDate is a timestamp (an integer), tci a score
DataPoint(x, y) == [releaseDate |-> x, tci |-> y]

NoRegFit == [k |-> "none", slope |-> FZero, intercept |-> FZero, rSquared |-> FZero]

NullFit == [k |-> "null", slope |-> FZero, intercept |-> FZero, rSquared |-> FZero]

LinearParams(slope, intercept, rSquared) ==
    [k |-> "fit", slope |-> slope, intercept |-> intercept, rSquared |-> rSquared]

xValuesOf(data) == [i \in 1..Len(data) |-> FromInt(data[i].releaseDate)]

yValuesOf(data) == [i \in 1..Len(data) |-> FromInt(data[i].tci)]

meanOf(values) == FDiv(reduceSum(values), FromInt(Len(values)))

diffsOf(values, mean) == [i \in 1..Len(values) |-> FSub(values[i], mean)]

\* the accumulation of the products of two columns, from 0
sumProducts(a, b) == reduceSum([i \in 1..Len(a) |-> FMul(a[i], b[i])])

predicted(slope, intercept, x) == FAdd(FMul(slope, x), intercept)

ssResidualOf(xValues, yValues, slope, intercept) ==
    sumProducts(
        [i \in 1..Len(xValues) |-> FSub(yValues[i], predicted(slope, intercept, xValues[i]))],
        [i \in 1..Len(xValues) |-> FSub(yValues[i], predicted(slope, intercept, xValues[i]))])

rSquaredOf(ssTotal, ssResidual) ==
    IF ssTotal = FZero THEN FOne ELSE FSub(FOne, FDiv(ssResidual, ssTotal))

fitWithLine(xValues, yValues, yDiffs, slope, intercept) ==
    LinearParams(slope, intercept,
                 rSquaredOf(sumProducts(yDiffs, yDiffs),
                            ssResidualOf(xValues, yValues, slope, intercept)))

fitWithSlopeThroughMean(xValues, yValues, xMean, yMean, yDiffs, slope) ==
    fitWithLine(xValues, yValues, yDiffs, slope, yMean)

fitWithSlope(xValues, yValues, xMean, yMean, yDiffs, slope) ==
    fitWithLine(xValues, yValues, yDiffs, slope, FSub(yMean, FMul(slope, xMean)))

fitWithSums(xValues, yValues, xMean, yMean, yDiffs, numerator, denominator) ==
    IF denominator = FZero THEN NullFit
    ELSE fitWithSlope(xValues, yValues, xMean, yMean, yDiffs,
                      FDiv(numerator, denominator))

fitWithDiffs(xValues, yValues, xMean, yMean, xDiffs, yDiffs) ==
    fitWithSums(xValues, yValues, xMean, yMean, yDiffs,
                sumProducts(xDiffs, yDiffs), sumProducts(xDiffs, xDiffs))

fitWithMeans(xValues, yValues, xMean, yMean) ==
    fitWithDiffs(xValues, yValues, xMean, yMean,
                 diffsOf(xValues, xMean), diffsOf(yValues, yMean))

tooFewPointsThree(data) == Len(data) < 3

tooFewPoints(data) == Len(data) < 2

fitLinearRegression(data) ==
    IF tooFewPoints(data) THEN NullFit
    ELSE fitWithMeans(xValuesOf(data), yValuesOf(data),
                      meanOf(xValuesOf(data)), meanOf(yValuesOf(data)))

-----------------------------------------------------------------------------
(* linearRegression.ts: standard errors and the combined band *)

\* 1.96, as the arithmetic holds it
zScore == FDiv(FromInt(196), FromInt(100))

\* Math.pow(v, 2)
square(v) == FMul(v, v)

\* sum of squared deviations of the x values from their mean
ssXOf(xValues, xMean) ==
    sumProducts(diffsOf(xValues, xMean), diffsOf(xValues, xMean))

\* Math.sqrt(ssResidual / (n - 2))
residualStd(data, params) ==
    FSqrt(FDiv(ssResidualOf(xValuesOf(data), yValuesOf(data),
                            params.slope, params.intercept),
               FromInt(Len(data) - 2)))

\* 1 / n + Math.pow(x - xMean, 2) / ssX
confidenceTerm(n, x, xMean, ssX) ==
    FAdd(FDiv(FOne, FromInt(n)), FDiv(square(FSub(x, xMean)), ssX))

\* 1 + 1 / n + Math.pow(x - xMean, 2) / ssX
predictionTerm(n, x, xMean, ssX) ==
    FAdd(FAdd(FOne, FDiv(FOne, FromInt(n))), FDiv(square(FSub(x, xMean)), ssX))

standardErrorWith(x, data, params, xMean, ssX) ==
    IF ssX = FZero THEN FZero
    ELSE FMul(residualStd(data, params),
              FSqrt(confidenceTerm(Len(data), x, xMean, ssX)))

calculateStandardErrorAtX(x, data, params) ==
    IF Len(data) < 3 THEN FZero
    ELSE standardErrorWith(x, data, params, meanOf(xValuesOf(data)),
                           ssXOf(xValuesOf(data), meanOf(xValuesOf(data))))

predictionErrorWith(x, data, params, xMean, ssX) ==
    IF ssX = FZero THEN FZero
    ELSE FMul(residualStd(data, params),
              FSqrt(predictionTerm(Len(data), x, xMean, ssX)))

calculatePredictionErrorAtX(x, data, params) ==
    IF Len(data) < 3 THEN FZero
    ELSE predictionErrorWith(x, data, params, meanOf(xValuesOf(data)),
                             ssXOf(xValuesOf(data), meanOf(xValuesOf(data))))

CombinedBandPoint(x, y, confidenceMargin, predictionMargin) ==
    [releaseDate |-> x,
     regressionTCI |-> y,
     upper |-> FAdd(y, confidenceMargin),
     lower |-> FSub(y, confidenceMargin),
     upperPred |-> FAdd(y, predictionMargin),
     lowerPred |-> FSub(y, predictionMargin)]

bandPointAt(x, data, params) ==
    CombinedBandPoint(x, predicted(params.slope, params.intercept, x),
                      FMul(zScore, calculateStandardErrorAtX(x, data, params)),
                      FMul(zScore, calculatePredictionErrorAtX(x, data, params)))

\* xMin + i * step
positionAt(start, i, step) == FAdd(start, FMul(FromInt(i), step))

\* mutant: a band for two data points
generateCombinedRegressionDataFromTwo(data, params, xMin, xMax, numPoints) ==
    IF Len(data) < 2 THEN <<>>
    ELSE [k \in 1..numPoints |->
             bandPointAt(positionAt(xMin, k - 1,
                                    FDiv(FSub(xMax, xMin), FromInt(numPoints - 1))),
                         data, params)]

generateCombinedRegressionData(data, params, xMin, xMax, numPoints) ==
    IF Len(data) < 3 THEN <<>>
    ELSE [k \in 1..numPoints |->
             bandPointAt(positionAt(xMin, k - 1,
                                    FDiv(FSub(xMax, xMin), FromInt(numPoints - 1))),
                         data, params)]

-----------------------------------------------------------------------------
(* linearRegression.ts: generateForecastData.  The clock of the model ticks *)
(* once a day: a timestamp is a number of days, not of milliseconds.        *)

TickMs == 24 * 60 * 60 * 1000

MS_PER_DAY == (24 * 60 * 60 * 1000) \div TickMs

MS_PER_YEAR == 365 * MS_PER_DAY

RegressionStats(rSquared, growthPerYear, currentTCI, projectedTCI, lastDataDate, forecastEndDate) ==
    [rSquared |-> rSquared,
     growthPerYear |-> growthPerYear,
     currentTCI |-> currentTCI,
     projectedTCI |-> projectedTCI,
     lastDataDate |-> lastDataDate,
     forecastEndDate |-> forecastEndDate]

ZeroStats == RegressionStats(FZero, FZero, FZero, FZero, FZero, FZero)

ForecastBandPoint(x, y, margin, predMargin, isForecast) ==
    [releaseDate |-> x,
     regressionTCI |-> y,
     upper |-> FAdd(y, margin),
     lower |-> FSub(y, margin),
     upperPred |-> FAdd(y, predMargin),
     lowerPred |-> FSub(y, predMargin),
     isForecast |-> isForecast]

\* Math.min(...xValues) and Math.max(...xValues) of a non-empty input
minDateOf(data) ==
    FromInt(CHOOSE x \in {data[i].releaseDate : i \in 1..Len(data)} :
                \A i \in 1..Len(data) : x <= data[i].releaseDate)

lastDataDateOf(data) ==
    FromInt(CHOOSE x \in {data[i].releaseDate : i \in 1..Len(data)} :
                \A i \in 1..Len(data) : x >= data[i].releaseDate)

forecastEndDateOfFourWeeks(lastDataDate, forecastMonths) ==
    FAdd(lastDataDate,
         FMul(FMul(FromInt(forecastMonths), FromInt(28)), FromInt(MS_PER_DAY)))

forecastEndDateOf(lastDataDate, forecastMonths) ==
    FAdd(lastDataDate,
         FMul(FMul(FromInt(forecastMonths), FromInt(30)), FromInt(MS_PER_DAY)))

historicalPointAsForecast(x, n, params, xMean, ssX, stdResidual) ==
    ForecastBandPoint(x, predicted(params.slope, params.intercept, x),
        FMul(zScore, FMul(stdResidual, FSqrt(confidenceTerm(n, x, xMean, ssX)))),
        FMul(zScore, FMul(stdResidual, FSqrt(predictionTerm(n, x, xMean, ssX)))),
        TRUE)

\* a point of the historical segment: confidence and prediction margins
historicalPoint(x, n, params, xMean, ssX, stdResidual) ==
    ForecastBandPoint(x, predicted(params.slope, params.intercept, x),
        FMul(zScore, FMul(stdResidual, FSqrt(confidenceTerm(n, x, xMean, ssX)))),
        FMul(zScore, FMul(stdResidual, FSqrt(predictionTerm(n, x, xMean, ssX)))),
        FALSE)

\* a point of the forecast segment: the prediction margin on both bands
forecastPoint(x, n, params, xMean, ssX, stdResidual) ==
    ForecastBandPoint(x, predicted(params.slope, params.intercept, x),
        FMul(zScore, FMul(stdResidual, FSqrt(predictionTerm(n, x, xMean, ssX)))),
        FMul(zScore, FMul(stdResidual, FSqrt(predictionTerm(n, x, xMean, ssX)))),
        TRUE)

historicalPoints(n, params, xMean, ssX, stdResidual, minDate, histStep, numHistoricalPoints) ==
    [k \in 1..numHistoricalPoints |->
        historicalPoint(positionAt(minDate, k - 1, histStep),
                        n, params, xMean, ssX, stdResidual)]

\* mutant: the forecast loop starts one step after the last data date
forecastPointsAfterLast(n, params, xMean, ssX, stdResidual, lastDataDate, forecastStep, numForecastPoints) ==
    [k \in 1..numForecastPoints |->
        forecastPoint(positionAt(lastDataDate, k, forecastStep),
                      n, params, xMean, ssX, stdResidual)]

forecastPoints(n, params, xMean, ssX, stdResidual, lastDataDate, forecastStep, numForecastPoints) ==
    [k \in 1..(numForecastPoints + 1) |->
        forecastPoint(positionAt(lastDataDate, k - 1, forecastStep),
                      n, params, xMean, ssX, stdResidual)]

forecastStats(params, lastDataDate, forecastEndDate) ==
    RegressionStats(params.rSquared,
                    FMul(params.slope, FromInt(MS_PER_YEAR)),
                    predicted(params.slope, params.intercept, lastDataDate),
                    predicted(params.slope, params.intercept, forecastEndDate),
                    lastDataDate, forecastEndDate)

forecastWithDates(data, params, xMean, ssX, stdResidual, minDate, lastDataDate, forecastEndDate, numHistoricalPoints, numForecastPoints) ==
    [forecastData |->
        historicalPoints(Len(data), params, xMean, ssX, stdResidual, minDate,
            FDiv(FSub(lastDataDate, minDate), FromInt(numHistoricalPoints - 1)),
            numHistoricalPoints)
        \o forecastPoints(Len(data), params, xMean, ssX, stdResidual, lastDataDate,
            FDiv(FSub(forecastEndDate, lastDataDate), FromInt(numForecastPoints)),
            numForecastPoints),
     stats |-> forecastStats(params, lastDataDate, forecastEndDate)]

forecastWithMean(data, params, xMean, forecastMonths, numHistoricalPoints, numForecastPoints) ==
    forecastWithDates(data, params, xMean, ssXOf(xValuesOf(data), xMean),
        residualStd(data, params), minDateOf(data), lastDataDateOf(data),
        forecastEndDateOf(lastDataDateOf(data), forecastMonths),
        numHistoricalPoints, numForecastPoints)

tooFewForForecastTwo(data) == Len(data) < 2

tooFewForForecast(data) == Len(data) < 3

generateForecastData(data, params, forecastMonths, numHistoricalPoints, numForecastPoints) ==
    IF tooFewForForecast(data)
    THEN [forecastData |-> <<>>, stats |-> ZeroStats]
    ELSE forecastWithMean(data, params, meanOf(xValuesOf(data)), forecastMonths,
                          numHistoricalPoints, numForecastPoints)

-----------------------------------------------------------------------------
(* The calls *)

NoOpt ==
    [params |-> <<>>, learningRate |-> 0, velocity |-> <<>>, prevLoss |-> Inf,
     iter |-> 0, stopped |-> FALSE, loss |-> Null, gradient |-> <<>>]

NoParams ==
    [difficulty |-> <<>>, slope |-> <<>>, capability |-> <<>>,
     fitResidual |-> Null, nModels |-> 0, nBenchmarks |-> 0]

NoCall == [kind |-> "none", preserveExisting |-> FALSE, run |-> 0, seed |-> 0]

NoFit == [trace |-> <<>>, result |-> NoParams]

NoProbe == [entry |-> <<>>, tci |-> Null, stderr |-> Null, done |-> FALSE]

NoBand == [k |-> "none", points |-> <<>>]

NoForecast ==
    [k |-> "none", params |-> NoRegFit, forecastMonths |-> 0,
     forecastData |-> <<>>, stats |-> ZeroStats]

NoFrontierArgs == [data |-> <<>>, benchmarkKeys |-> <<>>, endDate |-> 0]

NoFrontier == [k |-> "none", points |-> <<>>]

NoObjective == [losses |-> <<>>, flatAt |-> 0]

NoRankings == [k |-> "none", data |-> <<>>, benchmarkKey |-> "", tci |-> <<>>, unified |-> <<>>]

\* an error state of null
NoError == <<>>

NoHook == [phase |-> "none", mounted |-> FALSE, data |-> <<>>, loading |-> FALSE,
           error |-> NoError, response |-> <<>>, jsonData |-> <<>>, thrown |-> <<>>]

NoDropdown == [mounted |-> FALSE, isOpen |-> FALSE, closeTimeoutRef |-> 0,
               timers |-> {}, inside |-> FALSE, now |-> 0, leftAt |-> 0]

PerturbSeeds == {2, 7}

Matrix == buildScoreMatrix(entries)

ShadowMatrix == perturbMatrix(Matrix, call.seed)

Init ==
    /\ cfg \in Configs
    /\ rows \in RowLists
    /\ pc = "idle"
    /\ call = NoCall
    /\ entries = <<>>
    /\ entries0 = <<>>
    /\ opt = NoOpt
    /\ shadow = NoOpt
    /\ trace = <<>>
    /\ firstFit = NoFit
    /\ irtParams = NoParams
    /\ probe = NoProbe
    /\ regData = <<>>
    /\ regFit = NoRegFit
    /\ band = NoBand
    /\ forecast = NoForecast
    /\ frontierArgs = NoFrontierArgs
    /\ frontier = NoFrontier
    /\ objective = NoObjective
    /\ rankings = NoRankings
    /\ hook = NoHook
    /\ dropdown = NoDropdown

\* fitIRTParameters(es) up to the call of optimize, or to its early return
StartFit(es, seed) ==
    IF takesDefaultPath(es)
    THEN /\ pc' = "fitted"
         /\ irtParams' = fitDefault(es)
         /\ opt' = NoOpt
         /\ shadow' = NoOpt
         /\ trace' = <<>>
    ELSE /\ pc' = "optimize"
         /\ irtParams' = NoParams
         /\ opt' = optimizeInit(buildScoreMatrix(es))
         /\ shadow' = optimizeInit(perturbMatrix(buildScoreMatrix(es), seed))
         /\ trace' = <<optimizeInit(buildScoreMatrix(es))>>

\* a caller calls fitIRTParameters(entries)
FitCall ==
    /\ pc = "idle"
    /\ \E seed \in PerturbSeeds :
        /\ call' = [kind |-> "fit", preserveExisting |-> FALSE, run |-> 1, seed |-> seed]
        /\ entries' = rowsToEntries(rows)
        /\ entries0' = rowsToEntries(rows)
        /\ StartFit(rowsToEntries(rows), seed)
    /\ UNCHANGED <<cfg, rows, firstFit, probe, regVars, frontierVars, uiVars>>

\* a caller calls calculateAllTCI(entries, preserveExisting)
CalcAllCall ==
    /\ pc = "idle"
    /\ \E preserveExisting \in BOOLEAN :
        /\ call' = [kind |-> "calcAll", preserveExisting |-> preserveExisting,
                    run |-> 1, seed |-> 0]
        /\ entries' = rowsToEntries(rows)
        /\ entries0' = rowsToEntries(rows)
        /\ StartFit(rowsToEntries(rows), 0)
    /\ UNCHANGED <<cfg, rows, firstFit, probe, regVars, frontierVars, uiVars>>

\* a caller calls transformLeaderboardData(response)
TransformCall ==
    /\ pc = "idle"
    /\ call' = [kind |-> "transform", preserveExisting |-> transformPreserves,
                run |-> 1, seed |-> 0]
    /\ entries' = rowsToEntries(rows)
    /\ entries0' = rowsToEntries(rows)
    /\ StartFit(rowsToEntries(rows), 0)
    /\ UNCHANGED <<cfg, rows, firstFit, probe, regVars, frontierVars, uiVars>>

\* one iteration of optimize
OptimizeIter ==
    /\ pc = "optimize"
    /\ ~optimizeDone(opt, cfg.maxIterations)
    /\ opt' = optimizeIteration(opt, Matrix, fitRegularization(Matrix))
    /\ shadow' = optimizeIteration(shadow, ShadowMatrix, fitRegularization(ShadowMatrix))
    /\ trace' = Append(trace, opt')
    /\ UNCHANGED <<cfg, rows, pc, call, entries, entries0, firstFit, irtParams,
                   probe, regVars, frontierVars, uiVars>>

\* optimize returns and fitIRTParameters builds its result
FitReturn ==
    /\ pc = "optimize"
    /\ optimizeDone(opt, cfg.maxIterations)
    /\ irtParams' = fitResult(Matrix, optimizeResult(opt, Matrix, fitRegularization(Matrix)))
    /\ pc' = "fitted"
    /\ UNCHANGED <<cfg, rows, call, entries, entries0, opt, shadow, trace,
                   firstFit, probe, regVars, frontierVars, uiVars>>

\* the rest of calculateAllTCI: the loop over the entries
ScoreAll ==
    /\ pc = "fitted"
    /\ call.kind = "calcAll"
    /\ entries' = scoreEntries(entries, irtParams, call.preserveExisting)
    /\ pc' = "done"
    /\ UNCHANGED <<cfg, rows, call, entries0, opt, shadow, trace, firstFit,
                   irtParams, probe, regVars, frontierVars, uiVars>>

\* the rest of transformLeaderboardData: the loop of calculateAllTCI, the sort, the ranks
TransformFinish ==
    /\ pc = "fitted"
    /\ call.kind = "transform"
    /\ entries' = assignRanks(sortEntries(
                      scoreEntries(entries, irtParams, call.preserveExisting)))
    /\ pc' = "done"
    /\ UNCHANGED <<cfg, rows, call, entries0, opt, shadow, trace, firstFit,
                   irtParams, probe, regVars, frontierVars, uiVars>>

\* the caller calls fitIRTParameters a second time on the same records
Refit ==
    /\ pc = "fitted"
    /\ call.kind = "fit"
    /\ call.run = 1
    /\ ~probe.done
    /\ firstFit' = [trace |-> trace, result |-> irtParams]
    /\ call' = [call EXCEPT !.run = 2]
    /\ StartFit(entries, call.seed)
    /\ UNCHANGED <<cfg, rows, entries, entries0, probe, regVars, frontierVars, uiVars>>

\* a caller scores any record with the fitted parameters
Probe ==
    /\ pc = "fitted"
    /\ call.kind = "fit"
    /\ call.run = 1
    /\ ~probe.done
    /\ \E r \in RowChoices :
        probe' = [entry |-> rowToEntry(r),
                  tci |-> calculateTCI(rowToEntry(r), irtParams),
                  stderr |-> calculateTCIStderr(rowToEntry(r), irtParams),
                  done |-> TRUE]
    /\ UNCHANGED <<cfg, rows, pc, call, entries, entries0, opt, shadow, trace,
                   firstFit, irtParams, regVars, frontierVars, uiVars>>

Next ==
    \/ FitCall
    \/ CalcAllCall
    \/ TransformCall
    \/ OptimizeIter
    \/ FitReturn
    \/ ScoreAll
    \/ TransformFinish
    \/ Refit
    \/ Probe

Spec == Init /\ [][Next]_vars

-----------------------------------------------------------------------------
(* The calls of calculateAllTCI on records with equal scores and on records *)
(* with a score on one benchmark only                                       *)

\* a record with a score on teleqna only, in tenths of a percent
SingleScore(name, tenths) ==
    [model |-> <<name>>,
     bench |-> [Absent EXCEPT !["teleqna"] = <<Tenths(tenths)>>],
     tci |-> <<>>]

\* the scores of RowGpt under another name
RowTwin ==
    [RowGpt EXCEPT !.model = <<"claude", " ", "(", "Anthropic", ")">>]

\* the scores of RowGpt with a TCI stored in the JSON
RowPreset ==
    [RowGpt EXCEPT !.model = <<"gemini">>, !.tci = <<Pct(120), Tenths(15)>>]

ScoringLists ==
    {<<SingleScore("a", 950), SingleScore("b", 900), SingleScore("c", 850),
       SingleScore("d", 800), SingleScore("e", 750)>>,
     <<SingleScore("d", 800), SingleScore("a", 950), SingleScore("e", 750),
       SingleScore("b", 900)>>,
     <<SingleScore("a", 800), SingleScore("b", 800), SingleScore("c", 800)>>,
     <<SingleScore("a", 890), SingleScore("b", 900)>>,
     <<SingleScore("a", 995), SingleScore("b", 999)>>,
     <<SingleScore("a", 200), SingleScore("b", 500), SingleScore("c", 350)>>,
     <<RowGpt, RowTwin>>,
     <<RowTwin, RowLlama, RowGpt>>,
     <<RowGpt, RowPreset>>,
     <<RowEmpty, RowOverride>>}

InitScoring ==
    /\ cfg \in Configs
    /\ rows \in ScoringLists
    /\ pc = "idle"
    /\ call = NoCall
    /\ entries = <<>>
    /\ entries0 = <<>>
    /\ opt = NoOpt
    /\ shadow = NoOpt
    /\ trace = <<>>
    /\ firstFit = NoFit
    /\ irtParams = NoParams
    /\ probe = NoProbe
    /\ regData = <<>>
    /\ regFit = NoRegFit
    /\ band = NoBand
    /\ forecast = NoForecast
    /\ frontierArgs = NoFrontierArgs
    /\ frontier = NoFrontier
    /\ objective = NoObjective
    /\ rankings = NoRankings
    /\ hook = NoHook
    /\ dropdown = NoDropdown

NextScoring ==
    \/ CalcAllCall
    \/ OptimizeIter
    \/ FitReturn
    \/ ScoreAll

SpecScoring == InitScoring /\ [][NextScoring]_vars

-----------------------------------------------------------------------------
(* The loop of optimize() on any objective: the loss each call of           *)
(* computeObjectiveAndGradient returns is given by a sequence, the gradient *)
(* has equal components, or is zero from the iteration flatAt on.           *)

\* the losses of the iterations 1..MaxLongIter + 1
Falling == [k \in 1..(MaxLongIter + 1) |-> Num(100 * Scale - 10 * k)]

Rising == [k \in 1..(MaxLongIter + 1) |-> Num(10 * k)]

ZigZag == [k \in 1..(MaxLongIter + 1) |-> Num(IF k % 2 = 1 THEN 100 ELSE 50)]

Settling == [k \in 1..(MaxLongIter + 1) |-> Num(IF k < 4 THEN 100 - 10 * k ELSE 70)]

\* falling until the learning rate is at its cap, then rising
Overshooting ==
    [k \in 1..(MaxLongIter + 1) |-> Num(IF k < MaxLongIter - 3 THEN 100 * Scale - 10 * k
                                         ELSE 100 * Scale + 10 * k)]

NotANumber == [k \in 1..(MaxLongIter + 1) |-> NaN]

Objectives ==
    {[losses |-> l, flatAt |-> 0] :
        l \in {Falling, Rising, ZigZag, Settling, Overshooting, NotANumber}}
    \cup {[losses |-> Falling, flatAt |-> 3], [losses |-> ZigZag, flatAt |-> 6]}

\* what computeObjectiveAndGradient returns at the iteration iter (0-based)
objectiveResult(obj, iter, nParams) ==
    [loss |-> obj.losses[iter + 1],
     gradient |-> [i \in 1..nParams |->
                     IF obj.flatAt # 0 /\ iter + 1 >= obj.flatAt THEN 0
                     ELSE Scale \div 10]]

\* one iteration of the loop on the objective
iterationOn(o, obj) ==
    IF objectiveResult(obj, o.iter, Len(o.params)).loss = NaN THEN stepOnNaN(o)
    ELSE stepFrom(o, [loss |-> objectiveResult(obj, o.iter, Len(o.params)).loss.v,
                      gradient |-> objectiveResult(obj, o.iter, Len(o.params)).gradient])

InitOptimize ==
    /\ cfg = [IRT_CONFIG EXCEPT !.maxIterations = MaxLongIter]
    /\ rows = <<RowGpt>>
    /\ pc = "optimize"
    /\ call = [kind |-> "optimize", preserveExisting |-> FALSE, run |-> 1, seed |-> 0]
    /\ entries = rowsToEntries(<<RowGpt>>)
    /\ entries0 = rowsToEntries(<<RowGpt>>)
    /\ opt = optimizeInit(buildScoreMatrix(rowsToEntries(<<RowGpt>>)))
    /\ shadow = NoOpt
    /\ trace = <<optimizeInit(buildScoreMatrix(rowsToEntries(<<RowGpt>>)))>>
    /\ firstFit = NoFit
    /\ irtParams = NoParams
    /\ probe = NoProbe
    /\ regData = <<>>
    /\ regFit = NoRegFit
    /\ band = NoBand
    /\ forecast = NoForecast
    /\ frontierArgs = NoFrontierArgs
    /\ frontier = NoFrontier
    /\ objective \in Objectives
    /\ rankings = NoRankings
    /\ hook = NoHook
    /\ dropdown = NoDropdown

\* one iteration of optimize()
OptimizeOnObjective ==
    /\ pc = "optimize"
    /\ call.kind = "optimize"
    /\ ~optimizeDone(opt, cfg.maxIterations)
    /\ opt' = iterationOn(opt, objective)
    /\ trace' = Append(trace, opt')
    /\ UNCHANGED <<cfg, rows, pc, call, entries, entries0, shadow, firstFit,
                   irtParams, probe, regVars, frontierArgs, frontier, objective,
                   uiVars>>

\* the loop has ended and optimize() returns
OptimizeReturn ==
    /\ pc = "optimize"
    /\ call.kind = "optimize"
    /\ optimizeDone(opt, cfg.maxIterations)
    /\ pc' = "done"
    /\ UNCHANGED <<cfg, rows, call, entries, entries0, opt, shadow, trace, firstFit,
                   irtParams, probe, regVars, frontierArgs, frontier, objective,
                   uiVars>>

NextOptimize == OptimizeOnObjective \/ OptimizeReturn

SpecOptimize == InitOptimize /\ [][NextOptimize]_vars

\* the loop is a sequential program: it takes its next step
SpecOptimizeFair == SpecOptimize /\ WF_vars(NextOptimize)

-----------------------------------------------------------------------------
(* The calls of fitLinearRegression.  Timestamps are integers small enough  *)
(* for the sum of MaxPoints + 1 of them to be exact, as a sum of            *)
(* millisecond timestamps is in a double.                                   *)

XChoices == {3, 17, 30}

YChoices == {96, 150, 202}

PointChoices == {DataPoint(x, y) : x \in XChoices, y \in YChoices}

RegInputs == UNION {[1..n -> PointChoices] : n \in 0..MaxPoints}

\* inputs whose points lie on a line y = a * x + b, in increasing x
LineXs == {1, 2, 3, 4, 5, 17, 30}

LineCoeffs == {<<2, 3>>, <<-1, 40>>, <<3, 0>>}

Ascending(S) ==
    CHOOSE s \in [1..Cardinality(S) -> S] :
        \A i, j \in 1..Cardinality(S) : i < j => s[i] < s[j]

PointsOnLine(a, b, xs) == [i \in 1..Len(xs) |-> DataPoint(xs[i], a * xs[i] + b)]

LineInputs ==
    {PointsOnLine(c[1], c[2], Ascending(S)) :
        c \in LineCoeffs,
        S \in {T \in SUBSET LineXs : Cardinality(T) \in 2..MaxLinePoints}}

\* inputs with timestamps that are large against their span, as epoch
\* timestamps of release dates are
DatedXs == {64, 71, 85}

DatedYs == {96, 202}

DatedInputs ==
    UNION {[1..n -> {DataPoint(x, y) : x \in DatedXs, y \in DatedYs}] :
              n \in 0..MaxPoints}

\* the padding of the chart's date range, in days
PadChoices == {0, 7}

\* forecastMonths
MonthChoices == {1, 2}

\* parameters that are not the fit of the data
OtherParams == LinearParams(FromInt(1), FromInt(20), FOne)

InitReg ==
    /\ cfg = IRT_CONFIG
    /\ rows = <<>>
    /\ pc = "idle"
    /\ call = NoCall
    /\ entries = <<>>
    /\ entries0 = <<>>
    /\ opt = NoOpt
    /\ shadow = NoOpt
    /\ trace = <<>>
    /\ firstFit = NoFit
    /\ irtParams = NoParams
    /\ probe = NoProbe
    /\ regData \in RegInputs \cup LineInputs
    /\ regFit = NoRegFit
    /\ band = NoBand
    /\ forecast = NoForecast
    /\ frontierArgs = NoFrontierArgs
    /\ frontier = NoFrontier
    /\ objective = NoObjective
    /\ rankings = NoRankings
    /\ hook = NoHook
    /\ dropdown = NoDropdown

\* a caller fits a line to its data points
FitRegression ==
    /\ regFit.k = "none"
    /\ regFit' = fitLinearRegression(regData)
    /\ UNCHANGED <<irtVars, frontierVars, regData, band, forecast, uiVars>>

\* the chart's regressionData: no band without a fit, else the band over
\* the data's date range widened by a padding; a chart draws the band or
\* the forecast
GenerateBand ==
    /\ regFit.k # "none"
    /\ band.k = "none"
    /\ forecast.k = "none"
    /\ \E pad \in PadChoices :
        band' = [k |-> "done",
                 points |->
                    IF regFit.k = "null" THEN <<>>
                    ELSE generateCombinedRegressionData(regData, regFit,
                            FSub(minDateOf(regData), FromInt(pad)),
                            FAdd(lastDataDateOf(regData), FromInt(pad)),
                            BandPoints)]
    /\ UNCHANGED <<irtVars, frontierVars, regData, regFit, forecast, uiVars>>

\* a caller asks for a forecast of its data, with the fit of the data or
\* with parameters of its own
GenerateForecast ==
    /\ regFit.k # "none"
    /\ forecast.k = "none"
    /\ band.k = "none"
    /\ \E params \in ({regFit} \ {NullFit}) \cup {OtherParams},
          forecastMonths \in MonthChoices :
        forecast' = [k |-> "done", params |-> params,
                     forecastMonths |-> forecastMonths]
                    @@ generateForecastData(regData, params, forecastMonths,
                                            HistPoints, ForecastPoints)
    /\ UNCHANGED <<irtVars, frontierVars, regData, regFit, band, uiVars>>

NextReg == FitRegression

SpecReg == InitReg /\ [][NextReg]_vars

\* the fit, the band and the forecast of dated inputs
InitForecast ==
    /\ cfg = IRT_CONFIG
    /\ rows = <<>>
    /\ pc = "idle"
    /\ call = NoCall
    /\ entries = <<>>
    /\ entries0 = <<>>
    /\ opt = NoOpt
    /\ shadow = NoOpt
    /\ trace = <<>>
    /\ firstFit = NoFit
    /\ irtParams = NoParams
    /\ probe = NoProbe
    /\ regData \in DatedInputs
    /\ regFit = NoRegFit
    /\ band = NoBand
    /\ forecast = NoForecast
    /\ frontierArgs = NoFrontierArgs
    /\ frontier = NoFrontier
    /\ objective = NoObjective
    /\ rankings = NoRankings
    /\ hook = NoHook
    /\ dropdown = NoDropdown

NextForecast ==
    \/ FitRegression
    \/ GenerateBand
    \/ GenerateForecast

SpecForecast == InitForecast /\ [][NextForecast]_vars

-----------------------------------------------------------------------------
(* types/leaderboard.ts and the frontier chart: computeUnifiedFrontierData. *)
(* A release date string is absent or a text; a text is the sequence of the *)
(* numbers of "yyyy-mm-dd" and <<>> is the empty string.  Timestamps count  *)
(* ticks of the clock (days) from the first day of FirstYear.               *)

NoString == [defined |-> FALSE, text |-> <<>>]

Str(text) == [defined |-> TRUE, text |-> text]

FirstYear == 2025

\* the days of a year before the first of each month
DaysBefore == <<0, 31, 59, 90, 120, 151, 181, 212, 243, 273, 304, 334>>

\* the days of each month
DaysIn == <<31, 28, 31, 30, 31, 30, 31, 31, 30, 31, 30, 31>>

\* new Date(text).getTime(): NaN for a text that is not a date
dateGetTime(text) ==
    IF /\ Len(text) = 3
       /\ text[2] \in 1..12
       /\ text[3] \in 1..DaysIn[text[2]]
    THEN Num(((text[1] - FirstYear) * 365 + DaysBefore[text[2]] + (text[3] - 1))
                 * MS_PER_DAY)
    ELSE NaN

\* isBenchmarkScoreKey
isBenchmarkScoreKey(key) == key \in BenchSet

\* getBenchmarkScore: the score as a number, or undefined (Null)
getBenchmarkScore(entry, key) ==
    IF ~isBenchmarkScoreKey(key) THEN Null
    ELSE IF IsNum(entry.score[key]) THEN entry.score[key] ELSE Null

\* hasValidReleaseDate
hasValidReleaseDate(entry) ==
    entry.releaseDate.defined /\ Len(entry.releaseDate.text) > 0

\* parseReleaseDate: the timestamp, or undefined (Null)
parseReleaseDate(entry) ==
    IF ~hasValidReleaseDate(entry) THEN Null
    ELSE IF dateGetTime(entry.releaseDate.text) = NaN THEN Null
    ELSE dateGetTime(entry.releaseDate.text)

\* the keys of benchmarkKeys the entry has a score for
scoredKeys(entry, benchmarkKeys) ==
    {benchmarkKeys[j] : j \in {k \in 1..Len(benchmarkKeys) :
                                  getBenchmarkScore(entry, benchmarkKeys[k]) # Null}}

\* the event of an entry
eventOf(entry, benchmarkKeys) ==
    [releaseDate |-> parseReleaseDate(entry).v,
     model |-> entry.model,
     provider |-> entry.provider,
     scores |-> [key \in scoredKeys(entry, benchmarkKeys) |->
                    getBenchmarkScore(entry, key).v]]

\* whether the first loop pushes an event for the entry
isEvent(entry, benchmarkKeys) ==
    /\ parseReleaseDate(entry) # Null
    /\ scoredKeys(entry, benchmarkKeys) # {}

RECURSIVE collectEvents(_, _, _)
\* the first loop: the events of data[1..n], in the order of data
collectEvents(data, benchmarkKeys, n) ==
    IF n = 0 THEN <<>>
    ELSE IF isEvent(data[n], benchmarkKeys)
         THEN Append(collectEvents(data, benchmarkKeys, n - 1),
                     eventOf(data[n], benchmarkKeys))
         ELSE collectEvents(data, benchmarkKeys, n - 1)

\* the place of event e in a sorted list: after the events that are not later
insertEvent(sorted, e) ==
    LET before == SelectSeq(sorted, LAMBDA o : o.releaseDate <= e.releaseDate)
        after == SelectSeq(sorted, LAMBDA o : o.releaseDate > e.releaseDate)
    IN  before \o <<e>> \o after

RECURSIVE sortEvents(_, _)
\* events.sort((a, b) => a.releaseDate - b.releaseDate), a stable sort
sortEvents(events, n) ==
    IF n = 0 THEN <<>> ELSE insertEvent(sortEvents(events, n - 1), events[n])

\* mutant: a score equal to the running maximum counts as a new maximum
exceedsRunningMaxOrTies(score, max) == score >= max

\* score > (runningMax[key] || 0)
exceedsRunningMax(score, max) == score > max

\* whether the event sets a new maximum for a benchmark
hasNewMax(event, runningMax) ==
    \E key \in DOMAIN event.scores :
        exceedsRunningMax(event.scores[key], runningMax[key])

\* runningMax after the event.  The keys of an event are visited one after
\* the other, each compared with its own running maximum
raiseRunningMax(event, runningMax) ==
    [key \in DOMAIN runningMax |->
        IF /\ key \in DOMAIN event.scores
           /\ exceedsRunningMax(event.scores[key], runningMax[key])
        THEN event.scores[key]
        ELSE runningMax[key]]

\* a point of the frontier with the running maximum of every benchmark
\* that has one
FrontierPoint(releaseDate, model, provider, runningMax) ==
    [releaseDate |-> releaseDate,
     model |-> model,
     provider |-> provider,
     values |-> [key \in {k \in DOMAIN runningMax : runningMax[k] > 0} |->
                    runningMax[key]]]

RECURSIVE runningMaxAfter(_, _, _)
\* runningMax after the first n events
runningMaxAfter(events, n, benchmarkKeys) ==
    IF n = 0 THEN [key \in {benchmarkKeys[j] : j \in 1..Len(benchmarkKeys)} |-> 0]
    ELSE raiseRunningMax(events[n], runningMaxAfter(events, n - 1, benchmarkKeys))

RECURSIVE frontierPoints(_, _, _)
\* the second loop: the points of the first n events
frontierPoints(events, n, benchmarkKeys) ==
    IF n = 0 THEN <<>>
    ELSE IF hasNewMax(events[n], runningMaxAfter(events, n - 1, benchmarkKeys))
         THEN Append(frontierPoints(events, n - 1, benchmarkKeys),
                     FrontierPoint(events[n].releaseDate, events[n].model,
                                   events[n].provider,
                                   runningMaxAfter(events, n, benchmarkKeys)))
         ELSE frontierPoints(events, n - 1, benchmarkKeys)

\* the final point at the end date
withEndPoint(frontierData, runningMax, endDate) ==
    IF /\ Len(frontierData) > 0
       /\ frontierData[Len(frontierData)].releaseDate < endDate
    THEN Append(frontierData, FrontierPoint(endDate, "", "", runningMax))
    ELSE frontierData

\* computeUnifiedFrontierData on the sorted events
frontierOfEvents(events, benchmarkKeys, endDate) ==
    IF Len(events) = 0 THEN <<>>
    ELSE withEndPoint(frontierPoints(events, Len(events), benchmarkKeys),
                      runningMaxAfter(events, Len(events), benchmarkKeys),
                      endDate)

\* computeUnifiedFrontierData
computeUnifiedFrontierData(data, benchmarkKeys, endDate) ==
    frontierOfEvents(
        sortEvents(collectEvents(data, benchmarkKeys, Len(data)),
                   Len(collectEvents(data, benchmarkKeys, Len(data)))),
        benchmarkKeys, endDate)

-----------------------------------------------------------------------------
(* The calls of computeUnifiedFrontierData *)

\* a leaderboard entry as the frontier chart reads it
DatedEntry(model, releaseDate, teleqna, telelogs) ==
    [model |-> model,
     provider |-> "lab",
     releaseDate |-> releaseDate,
     score |-> [b \in BenchSet |->
                   IF b = "teleqna" THEN teleqna
                   ELSE IF b = "telelogs" THEN telelogs
                   ELSE Null]]

FrontierEntries ==
    {DatedEntry("a", Str(<<2025, 1, 15>>), Num(40), Null),
     DatedEntry("b", Str(<<2025, 1, 15>>), Num(70), Num(40)),
     DatedEntry("c", Str(<<2025, 2, 1>>), Num(40), Num(70)),
     DatedEntry("d", Str(<<2025, 3, 1>>), Num(70), Num(70)),
     DatedEntry("e", NoString, Num(90), Num(90)),
     DatedEntry("f", Str(<<>>), Num(90), Null),
     DatedEntry("g", Str(<<2025, 13, 1>>), Num(90), Num(90)),
     DatedEntry("h", Str(<<2025, 2, 1>>), Null, Null),
     DatedEntry("i", Str(<<2025, 1, 15>>), Num(0), Null)}

FrontierInputs == UNION {[1..n -> FrontierEntries] : n \in 0..MaxEntries}

\* the keys of the benchmarks shown; "tci" is not a benchmark score key
KeyChoices == {<<"teleqna", "telelogs">>, <<"telelogs", "tci">>}

\* the end of the date range: the first of February or of April
EndDateChoices == {dateGetTime(<<2025, 2, 1>>).v, dateGetTime(<<2025, 4, 1>>).v}

InitFrontier ==
    /\ cfg = IRT_CONFIG
    /\ rows = <<>>
    /\ pc = "idle"
    /\ call = NoCall
    /\ entries = <<>>
    /\ entries0 = <<>>
    /\ opt = NoOpt
    /\ shadow = NoOpt
    /\ trace = <<>>
    /\ firstFit = NoFit
    /\ irtParams = NoParams
    /\ probe = NoProbe
    /\ regData = <<>>
    /\ regFit = NoRegFit
    /\ band = NoBand
    /\ forecast = NoForecast
    /\ frontierArgs \in [data : FrontierInputs, benchmarkKeys : KeyChoices,
                         endDate : EndDateChoices]
    /\ frontier = NoFrontier
    /\ objective = NoObjective
    /\ rankings = NoRankings
    /\ hook = NoHook
    /\ dropdown = NoDropdown

\* the chart calls computeUnifiedFrontierData
ComputeFrontier ==
    /\ frontier.k = "none"
    /\ frontier' = [k |-> "done",
                    points |-> computeUnifiedFrontierData(
                                   frontierArgs.data, frontierArgs.benchmarkKeys,
                                   frontierArgs.endDate)]
    /\ UNCHANGED <<irtVars, regVars, frontierArgs, objective, uiVars>>

NextFrontier == ComputeFrontier

SpecFrontier == InitFrontier /\ [][NextFrontier]_vars

-----------------------------------------------------------------------------
(* Claims about the IRT fit and the TCI scorer *)

\* the number of non-null benchmark scores of an entry
ScoreCount(e) == Cardinality({b \in BenchSet : e.score[b] # Null})

\* the call has returned its entries
Returned == pc = "done"

\* fitIRTParameters has returned
Fitted == pc \in {"fitted", "done"}

\* fitIRTParameters went through optimize
Optimized == Fitted /\ IsNum(irtParams.fitResidual)

\* C1: calculateTCI and calculateTCIStderr return null for a record with fewer
\* non-null scores than minScoresRequired, and a finite number otherwise, for
\* any record and any fitted parameters
C1_NullBelowMinimumElseFinite ==
    probe.done =>
        IF ScoreCount(probe.entry) < cfg.minScoresRequired
        THEN probe.tci = Null /\ probe.stderr = Null
        ELSE IsNum(probe.tci) /\ IsNum(probe.stderr)

C1_Witness ==
    /\ probe.done
    /\ Optimized
    /\ ScoreCount(probe.entry) = cfg.minScoresRequired
    /\ IsNum(probe.tci)
    /\ IsNum(probe.stderr)
    /\ probe.stderr.v > 0

\* C2: calculateAllTCI with preserveExisting = true leaves tci and tci_stderr
\* of every record that already has a tci as they were, and computes the others
C2_PreserveExistingKeepsScores ==
    (Returned /\ call.kind = "calcAll" /\ call.preserveExisting) =>
        /\ Len(entries) = Len(entries0)
        /\ \A i \in 1..Len(entries0) :
            IF entries0[i].tci # Null
            THEN /\ entries[i].tci = entries0[i].tci
                 /\ entries[i].tci_stderr = entries0[i].tci_stderr
            ELSE IF ScoreCount(entries0[i]) < cfg.minScoresRequired
                 THEN entries[i].tci = Null
                 ELSE IsNum(entries[i].tci)

C2_Witness ==
    /\ Returned
    /\ call.kind = "calcAll"
    /\ call.preserveExisting
    /\ Optimized
    /\ \E i \in 1..Len(entries0) :
        /\ entries0[i].tci # Null
        /\ entries[i].tci = entries0[i].tci
        /\ ScoreCount(entries0[i]) >= cfg.minScoresRequired
    /\ \E i \in 1..Len(entries0) :
        /\ entries0[i].tci = Null
        /\ IsNum(entries[i].tci)

\* the entry was built from the same row as e0
SameRecord(e, e0) ==
    /\ e.model = e0.model
    /\ e.provider = e0.provider
    /\ e.score = e0.score
    /\ e.stderr = e0.stderr

\* C3: transformLeaderboardData returns, for a row that carries a tci value, an
\* entry whose tci is that value, and the computed score for the other rows
C3_JsonTciIsOverride ==
    (Returned /\ call.kind = "transform") =>
        \A i \in 1..Len(entries) : \A k \in 1..Len(entries0) :
            (SameRecord(entries[i], entries0[k]) /\ entries0[k].tci # Null)
                => entries[i].tci = entries0[k].tci

\* C4: the stored value of a masked-out cell influences neither loss nor
\* gradient nor any optimizer state nor the fitted parameters
C4_MaskedCellsDoNotInfluence ==
    /\ shadow = opt
    /\ (pc = "fitted" /\ opt.iter > 0) =>
          fitResult(ShadowMatrix,
                    optimizeResult(shadow, ShadowMatrix, fitRegularization(ShadowMatrix)))
          = irtParams

C4_Witness ==
    /\ pc = "fitted"
    /\ opt.iter >= 3
    /\ call.seed \in PerturbSeeds
    /\ \E i \in 1..Len(entries) : \E j \in 1..NBench :
        /\ ~Matrix.mask[i][j]
        /\ ShadowMatrix.scores[i][j] # Matrix.scores[i][j]
    /\ \E i \in 1..Len(entries) : \E j \in 1..NBench : Matrix.mask[i][j]

InBounds(a) == cfg.bounds.alphaMin <= a /\ a <= cfg.bounds.alphaMax

\* C6: every slope lies in [alphaMin, alphaMax]: in the optimizer after any
\* number of iterations, and in the parameters fitIRTParameters returns
C6_SlopeWithinBounds ==
    /\ pc = "optimize" =>
          \A j \in 1..NBench : InBounds(opt.params[NBench + j])
    /\ Fitted => \A b \in BenchSet : InBounds(irtParams.slope[b])

C6_Witness ==
    /\ Optimized
    /\ \E b \in BenchSet : irtParams.slope[b] = cfg.bounds.alphaMax
    /\ \E k \in 1..Len(trace) : \E j \in 1..NBench :
          trace[k].params[NBench + j] + trace[k].velocity[NBench + j] > cfg.bounds.alphaMax

\* no record has an observed benchmark score
NothingObserved(es) == \A i \in 1..Len(es) : ScoreCount(es[i]) = 0

\* C7: with zero records, or with no observed score, fitIRTParameters returns
\* difficulty 0, slope 1 and capability 0 and runs no optimizer iteration
C7_DefaultParametersWithoutIterations ==
    (Fitted /\ NothingObserved(entries0)) =>
        /\ irtParams.difficulty = [b \in BenchSet |-> 0]
        /\ irtParams.slope = [b \in BenchSet |-> Scale]
        /\ irtParams.capability = [m \in {entries0[i].model : i \in 1..Len(entries0)} |-> 0]
        /\ opt.iter = 0
        /\ trace = <<>>

C7_Witness ==
    /\ pc = "fitted"
    /\ Len(entries0) >= 2
    /\ NothingObserved(entries0)
    /\ irtParams.slope = [b \in BenchSet |-> Scale]

\* C8: the result of fitIRTParameters has a difficulty and a slope for every
\* benchmark key and a capability for every model name of the input
C8_EveryKeyHasAnEntry ==
    Fitted =>
        /\ DOMAIN irtParams.difficulty = BenchSet
        /\ DOMAIN irtParams.slope = BenchSet
        /\ DOMAIN irtParams.capability = {entries0[i].model : i \in 1..Len(entries0)}

C8_Witness ==
    /\ Optimized
    /\ Cardinality({entries0[i].model : i \in 1..Len(entries0)}) >= 2
    /\ \A i \in 1..Len(entries0) : entries0[i].model \in DOMAIN irtParams.capability
    /\ \E m \in DOMAIN irtParams.capability : irtParams.capability[m] # 0

-----------------------------------------------------------------------------
(* Claims about the regression *)

RegReturned == regFit.k # "none"

DistinctX(data) == {data[i].releaseDate : i \in 1..Len(data)}

ConstantY(data) == Cardinality({data[i].tci : i \in 1..Len(data)}) = 1

\* C9: fitLinearRegression returns null exactly when the input has fewer
\* than 2 points or all its points have the same timestamp, and a fit for
\* every input with two points or more and two distinct timestamps
C9_NullExactlyWhenDegenerate ==
    RegReturned =>
        ((regFit.k = "null") <=>
            (Len(regData) < 2 \/ Cardinality(DistinctX(regData)) = 1))

C9_Witness ==
    /\ regFit.k = "null"
    /\ Len(regData) = MaxPoints
    /\ Cardinality(DistinctX(regData)) = 1

\* C10: for an input with two distinct timestamps or more in which every
\* tci is the same value, fitLinearRegression returns rSquared exactly 1
\* and slope 0
C10_ConstantYGivesRSquaredOne ==
    (RegReturned /\ Cardinality(DistinctX(regData)) >= 2 /\ ConstantY(regData)) =>
        /\ regFit.k = "fit"
        /\ regFit.rSquared = FOne
        /\ regFit.slope = FZero

\* the coefficients <<a, b>> of the line the points of a line input lie on
LineOf(data) ==
    CHOOSE c \in LineCoeffs :
        \A i \in 1..Len(data) : data[i].tci = c[1] * data[i].releaseDate + c[2]

IsLineFit == regFit.k = "fit" /\ regData \in LineInputs

\* |value - target| <= scale * 2^-(MantBits - 3): equal up to the rounding
\* of the arithmetic
WithinRounding(value, target, scale) ==
    FLeq(FMul(FAbs(FSub(value, FromInt(target))), FromInt(Pow2(MantBits - 3))),
         FromInt(scale))

SumX(data) == SumFn([i \in 1..Len(data) |-> data[i].releaseDate], Len(data))

\* the sum of (x - mean)^2 of an input whose mean x is an integer
SumSquares(data) ==
    SumFn([i \in 1..Len(data) |->
              (data[i].releaseDate - SumX(data) \div Len(data)) ^ 2], Len(data))

\* every intermediate value of the fit is an integer that fits the
\* significand: nothing is rounded
NothingRounds(data, a) ==
    /\ SumX(data) % Len(data) = 0
    /\ SumX(data) < Pow2(MantBits)
    /\ SumFn([i \in 1..Len(data) |-> Abs(data[i].tci)], Len(data)) < Pow2(MantBits)
    /\ (a * a + 1) * SumSquares(data) < Pow2(MantBits)

-----------------------------------------------------------------------------
(* Claims about the band and the forecast *)

Forecasted == forecast.k = "done"

SeriesLen == Len(forecast.forecastData)

\* lowerPred <= lower <= regressionTCI <= upper <= upperPred
BandsNested(p) ==
    /\ FLeq(p.lowerPred, p.lower)
    /\ FLeq(p.lower, p.regressionTCI)
    /\ FLeq(p.regressionTCI, p.upper)
    /\ FLeq(p.upper, p.upperPred)

\* C12: at every band point of generateCombinedRegressionData and at every
\* historical point of generateForecastData the prediction band contains
\* the confidence band, which contains the regression line
C12_PredictionBandContainsConfidenceBand ==
    /\ band.k = "done" =>
           \A i \in 1..Len(band.points) : BandsNested(band.points[i])
    /\ Forecasted =>
           \A i \in 1..SeriesLen :
               ~forecast.forecastData[i].isForecast =>
                   BandsNested(forecast.forecastData[i])

\* C13: in the series of generateForecastData every point of the historical
\* segment is flagged isForecast = false and every point whose timestamp is
\* after the last data timestamp is flagged isForecast = true
C13_ForecastFlags ==
    (Forecasted /\ Len(regData) >= 3) =>
        /\ \A i \in 1..HistPoints : ~forecast.forecastData[i].isForecast
        /\ \A i \in 1..SeriesLen :
               FLess(lastDataDateOf(regData), forecast.forecastData[i].releaseDate)
                   => forecast.forecastData[i].isForecast

C13_Witness ==
    /\ Forecasted
    /\ Cardinality(DistinctX(regData)) = 3
    /\ forecast.params = regFit
    /\ ~forecast.forecastData[HistPoints].isForecast
    /\ forecast.forecastData[HistPoints].releaseDate = lastDataDateOf(regData)
    /\ forecast.forecastData[SeriesLen].isForecast
    /\ FLess(lastDataDateOf(regData), forecast.forecastData[SeriesLen].releaseDate)

\* C14: with fewer than 3 data points generateForecastData returns an empty
\* series and statistics that are all zero, whatever the parameters and the
\* horizon
C14_TooFewPointsEmptyForecast ==
    (Forecasted /\ Len(regData) < 3) =>
        /\ forecast.forecastData = <<>>
        /\ forecast.stats = ZeroStats

C14_Witness ==
    /\ Forecasted
    /\ Len(regData) = 2
    /\ regFit.k = "fit"
    /\ forecast.params = regFit
    /\ forecast.forecastMonths = 2
    /\ forecast.forecastData = <<>>

\* the steps of the two segments
HistStep ==
    FDiv(FSub(lastDataDateOf(regData), minDateOf(regData)), FromInt(HistPoints - 1))

ForecastStep ==
    FDiv(FSub(forecast.stats.forecastEndDate, lastDataDateOf(regData)),
         FromInt(ForecastPoints))

\* C15: for 3 data points or more the historical segment runs in equal steps
\* from the earliest to the latest data timestamp, the forecast segment in
\* equal steps from the latest data timestamp to latest + horizon (30 days
\* a month), currentTCI = slope * latest + intercept, projectedTCI =
\* slope * forecastEnd + intercept, growthPerYear = slope * a year, and
\* stats.forecastEndDate is the timestamp of the last point of the series
C15_ForecastSegmentsAndStats ==
    (Forecasted /\ Len(regData) >= 3) =>
        /\ SeriesLen = HistPoints + ForecastPoints + 1
        /\ forecast.forecastData[1].releaseDate = minDateOf(regData)
        /\ forecast.forecastData[HistPoints].releaseDate = lastDataDateOf(regData)
        /\ \A i \in 1..HistPoints :
               forecast.forecastData[i].releaseDate
                   = FAdd(minDateOf(regData), FMul(FromInt(i - 1), HistStep))
        /\ forecast.forecastData[HistPoints + 1].releaseDate = lastDataDateOf(regData)
        /\ \A i \in 1..(ForecastPoints + 1) :
               forecast.forecastData[HistPoints + i].releaseDate
                   = FAdd(lastDataDateOf(regData), FMul(FromInt(i - 1), ForecastStep))
        /\ forecast.stats.lastDataDate = lastDataDateOf(regData)
        /\ forecast.stats.forecastEndDate
               = FAdd(lastDataDateOf(regData),
                      FromInt(forecast.forecastMonths * 30 * MS_PER_DAY))
        /\ forecast.forecastData[SeriesLen].releaseDate = forecast.stats.forecastEndDate
        /\ forecast.stats.currentTCI
               = FAdd(FMul(forecast.params.slope, lastDataDateOf(regData)),
                      forecast.params.intercept)
        /\ forecast.stats.projectedTCI
               = FAdd(FMul(forecast.params.slope, forecast.stats.forecastEndDate),
                      forecast.params.intercept)
        /\ forecast.stats.growthPerYear
               = FMul(forecast.params.slope, FromInt(MS_PER_YEAR))
        /\ forecast.stats.rSquared = forecast.params.rSquared

C15_Witness ==
    /\ Forecasted
    /\ Cardinality(DistinctX(regData)) = 3
    /\ forecast.params = regFit
    /\ forecast.forecastMonths = 2
    /\ forecast.stats.forecastEndDate = FromInt(85 + 60)
    /\ forecast.forecastData[SeriesLen].releaseDate = FromInt(85 + 60)
    /\ forecast.stats.growthPerYear # FZero

-----------------------------------------------------------------------------
(* Claims about the records and the score matrix *)

\* C16: when fitIRTParameters or calculateAllTCI has returned, every record
\* of the caller's array has the field values it had before the call, tci
\* and tci_stderr included
C16_RunLeavesInputUnchanged ==
    (call.kind \in {"fit", "calcAll"} /\ pc \in {"fitted", "done"}) =>
        entries = entries0

\* the raw cell of row i for the j-th benchmark key: <<>>, <<score>> or
\* <<score, stderr>>
RawCell(i, j) == rows[i].bench[BENCHMARK_KEYS[j]]

\* C17: row i of the score matrix belongs to the i-th record and column j to
\* the j-th benchmark key; a missing score gives the cell 0 with mask false,
\* an observed score s the cell s / 100 with mask true; the records are
\* unchanged
C17_ScoreMatrixShape ==
    pc = "optimize" =>
        /\ Len(Matrix.scores) = Len(rows)
        /\ Len(Matrix.mask) = Len(rows)
        /\ Len(Matrix.models) = Len(rows)
        /\ \A i \in 1..Len(rows) :
            /\ Matrix.models[i] = entries0[i].model
            /\ Len(Matrix.scores[i]) = NBench
            /\ Len(Matrix.mask[i]) = NBench
            /\ \A j \in 1..NBench :
                IF RawCell(i, j) = <<>>
                THEN Matrix.scores[i][j] = 0 /\ ~Matrix.mask[i][j]
                ELSE Matrix.scores[i][j] * 100 = RawCell(i, j)[1] /\ Matrix.mask[i][j]
        /\ entries = entries0

C17_Witness ==
    /\ pc = "optimize"
    /\ rows = <<RowEdge, RowGpt>>
    /\ Matrix.models = <<entries0[1].model, entries0[2].model>>
    /\ Matrix.scores[1][4] = 0
    /\ Matrix.mask[1][4]
    /\ Matrix.scores[1][5] = 0
    /\ ~Matrix.mask[1][5]
    /\ Matrix.scores[2][1] = Pct(80) \div 100

-----------------------------------------------------------------------------
(* Claims about symmetry and monotonicity of the scoring *)

Scored == call.kind = "calcAll" /\ pc = "done"

SameScores(a, b) == a.score = b.score /\ a.stderr = b.stderr

\* C18: after a calculateAllTCI run any two records with identical benchmark
\* scores and standard errors have identical tci and tci_stderr
C18_EqualScoresEqualTci ==
    Scored =>
        \A i, j \in 1..Len(entries) :
            SameScores(entries[i], entries[j]) =>
                /\ entries[i].tci = entries[j].tci
                /\ entries[i].tci_stderr = entries[j].tci_stderr

\* whether the run computes the scores of the record at position i
RunScores(i) == ~call.preserveExisting \/ entries0[i].tci = Null

\* C18 (amended): after a calculateAllTCI run any two records with identical
\* benchmark scores and standard errors, both scored by the run (no stored
\* tci kept by preserveExisting), have identical tci and tci_stderr
C18_EqualScoresEqualTciWhenScored ==
    Scored =>
        \A i, j \in 1..Len(entries) :
            (SameScores(entries[i], entries[j]) /\ RunScores(i) /\ RunScores(j)) =>
                /\ entries[i].tci = entries[j].tci
                /\ entries[i].tci_stderr = entries[j].tci_stderr

C18_Witness ==
    /\ Scored
    /\ Len(entries) = 3
    /\ \A i \in 1..3 : entries[i].score["teleqna"] = Num(Pct(80))
    /\ entries[1].model # entries[2].model
    /\ IsNum(entries[1].tci)
    /\ entries[1].tci = entries[2].tci
    /\ entries[2].tci = entries[3].tci
    /\ IsNum(entries[1].tci_stderr)

\* the records have a score on the first benchmark and on no other
SingleBenchmark ==
    \A i \in 1..Len(entries) :
        \A j \in 1..NBench : IsNum(entries[i].score[BENCHMARK_KEYS[j]]) <=> j = 1

ScoreOf(i) == entries[i].score[BENCHMARK_KEYS[1]].v

\* C19: with one benchmark and no missing values a strictly higher benchmark
\* score yields a strictly higher composite score
C19_HigherScoreHigherTci ==
    (Scored /\ SingleBenchmark) =>
        \A i, j \in 1..Len(entries) :
            ScoreOf(i) > ScoreOf(j) =>
                /\ IsNum(entries[i].tci)
                /\ IsNum(entries[j].tci)
                /\ entries[i].tci.v > entries[j].tci.v

\* the scores of records i and j are in [1, 99] and a point or more apart
WellApart(i, j) ==
    /\ ScoreOf(j) >= Pct(1)
    /\ ScoreOf(i) <= Pct(99)
    /\ ScoreOf(i) - ScoreOf(j) >= Pct(1)

\* C19 (amended): with one benchmark and no missing values either no record
\* has a composite score (fewer scores than the configured minimum) or
\* every record has one, a higher benchmark score never yields a lower
\* composite score, and it yields a strictly higher one when both scores
\* are within [1, 99] and a point or more apart
C19_HigherScoreNotLowerTci ==
    (Scored /\ SingleBenchmark) =>
        \/ \A i \in 1..Len(entries) : entries[i].tci = Null
        \/ /\ \A i \in 1..Len(entries) : IsNum(entries[i].tci)
           /\ \A i, j \in 1..Len(entries) :
                ScoreOf(i) > ScoreOf(j) =>
                    /\ entries[i].tci.v >= entries[j].tci.v
                    /\ WellApart(i, j) => entries[i].tci.v > entries[j].tci.v

C19_Witness ==
    /\ Scored
    /\ SingleBenchmark
    /\ Len(entries) = 5
    /\ \A i \in 1..5 : ScoreOf(i) = Pct(100 - 5 * i)
    /\ \A i \in 1..4 : entries[i].tci.v > entries[i + 1].tci.v

-----------------------------------------------------------------------------
(* Claims about the frontier timeline *)

FrontierDone == frontier.k = "done"

NPoints == Len(frontier.points)

PointAt(i) == frontier.points[i]

\* the synthetic point at the end date
IsEndPoint(i) == i = NPoints /\ PointAt(i).model = "" /\ PointAt(i).provider = ""

\* the positions in data of the entries with a release date
DatedPositions ==
    {d \in 1..Len(frontierArgs.data) : parseReleaseDate(frontierArgs.data[d]) # Null}

DateOf(d) == parseReleaseDate(frontierArgs.data[d]).v

\* the score of the entry at position d on key, 0 for none
ScoreAt(d, key) ==
    IF getBenchmarkScore(frontierArgs.data[d], key) = Null THEN 0
    ELSE getBenchmarkScore(frontierArgs.data[d], key).v

\* the maximum score on key among the entries at the positions ds, 0 for none
BestAmong(ds, key) ==
    IF ds = {} THEN 0
    ELSE CHOOSE m \in {ScoreAt(d, key) : d \in ds} :
             \A d \in ds : ScoreAt(d, key) <= m

\* the value of point i on key, 0 for none
ValueAt(i, key) ==
    IF key \in DOMAIN PointAt(i).values THEN PointAt(i).values[key] ELSE 0

\* the positions of the entries point i can come from
SourcesOf(i) ==
    {d \in DatedPositions :
        /\ frontierArgs.data[d].model = PointAt(i).model
        /\ DateOf(d) = PointAt(i).releaseDate}

\* the points are in date order and no value decreases
Staircase ==
    /\ \A i \in 1..(NPoints - 1) :
        /\ PointAt(i).releaseDate <= PointAt(i + 1).releaseDate
        /\ \A key \in DOMAIN PointAt(i).values :
            /\ key \in DOMAIN PointAt(i + 1).values
            /\ PointAt(i).values[key] <= PointAt(i + 1).values[key]

\* every point but the end point comes from a model that strictly exceeded
\* the previous best score on a benchmark
EveryPointIsARecord ==
    \A i \in 1..NPoints :
        ~IsEndPoint(i) =>
            \E d \in SourcesOf(i) : \E key \in DOMAIN PointAt(i).values :
                /\ ScoreAt(d, key) = PointAt(i).values[key]
                /\ i > 1 => ScoreAt(d, key) > ValueAt(i - 1, key)

\* C20: the points of computeUnifiedFrontierData are in non-decreasing date
\* order, no benchmark's value decreases from a point to the next, every
\* point but the end point comes from a model that strictly exceeded the
\* previous best on a benchmark, and each value is the maximum score on its
\* benchmark among all dated entries released up to the point's date
C20_FrontierIsStaircaseOfMaxima ==
    FrontierDone =>
        /\ Staircase
        /\ EveryPointIsARecord
        /\ \A i \in 1..NPoints : \A key \in DOMAIN PointAt(i).values :
            PointAt(i).values[key]
                = BestAmong({d \in DatedPositions : DateOf(d) <= PointAt(i).releaseDate},
                            key)

\* the position in data of the entry point i comes from: the first one
SourceOf(i) == CHOOSE d \in SourcesOf(i) : \A o \in SourcesOf(i) : d <= o

\* the entries released before point i: on an earlier date, or on the date
\* of the point and no later in data than the entry of the point
ReleasedBefore(i) ==
    IF IsEndPoint(i) THEN DatedPositions
    ELSE {d \in DatedPositions :
            \/ DateOf(d) < PointAt(i).releaseDate
            \/ DateOf(d) = PointAt(i).releaseDate /\ d <= SourceOf(i)}

\* point i is the last point of its date
LastOfDate(i) ==
    i = NPoints \/ PointAt(i).releaseDate < PointAt(i + 1).releaseDate

\* C20 (amended): as C20, with each value the maximum score on its benchmark
\* among the dated entries of an earlier date and those of the point's date
\* that come no later in the input than the point's entry; the last point
\* of a date carries the maximum among all dated entries released up to
\* that date
C20_FrontierIsStaircaseOfRunningMaxima ==
    FrontierDone =>
        /\ Staircase
        /\ EveryPointIsARecord
        /\ \A i \in 1..NPoints : \A key \in DOMAIN PointAt(i).values :
            /\ PointAt(i).values[key] = BestAmong(ReleasedBefore(i), key)
            /\ LastOfDate(i) =>
                PointAt(i).values[key]
                    = BestAmong({d \in DatedPositions :
                                    DateOf(d) <= PointAt(i).releaseDate}, key)

C20_Witness ==
    /\ FrontierDone
    /\ NPoints = 4
    /\ PointAt(1).model = "a"
    /\ PointAt(2).model = "b"
    /\ PointAt(1).releaseDate = PointAt(2).releaseDate
    /\ PointAt(3).model = "c"
    /\ PointAt(3).values = [teleqna |-> 70, telelogs |-> 70]
    /\ IsEndPoint(4)
    /\ PointAt(4).values = PointAt(3).values

-----------------------------------------------------------------------------
(* Ranking utilities: calculateTCIRankings, calculateBenchmarkRankings and  *)
(* calculateRankings.  An entry carries the fields the rankings read.       *)

TOP_RANKINGS_COUNT == 3

\* TCI_CONFIG.baseErrors[benchmarkKey] || 2.0; the table of base errors is
\* not among the sources, the fallback is
baseErrorOf(benchmarkKey) == 2 * Scale

\* Math.round(x * 100) / 100
roundToHundredths(x) == RoundDiv(x, Scale \div 100) * (Scale \div 100)

calculateError(score, benchmarkKey) ==
    roundToHundredths(MulFP(baseErrorOf(benchmarkKey),
                            Scale + (100 * Scale - score) \div 200))

\* the entry of the TCI ranking made from a leaderboard entry
TCIEntry(entry) ==
    [rank |-> 0,
     model |-> entry.model,
     provider |-> entry.provider,
     tci |-> entry.tci.v,
     error |-> IF entry.tci_stderr # Null THEN entry.tci_stderr.v
               ELSE calculateError(entry.tci.v, "tci"),
     isNew |-> entry.rank <= TOP_RANKINGS_COUNT]

\* the entry of a benchmark's ranking made from a leaderboard entry
RankingEntry(entry, benchmarkKey) ==
    [rank |-> 0,
     model |-> entry.model,
     provider |-> entry.provider,
     score |-> entry.score[benchmarkKey].v,
     error |-> calculateError(entry.score[benchmarkKey].v, benchmarkKey),
     isNew |-> entry.rank <= TOP_RANKINGS_COUNT]

\* the value the rankings sort by
sortValue(e) == IF "tci" \in DOMAIN e THEN e.tci ELSE e.score

\* mutant: the comparator a.tci - b.tci
comparesAfterAscending(a, b) == sortValue(a) - sortValue(b) > 0

\* the comparator (a, b) => b.tci - a.tci (b.score - a.score) is positive
comparesAfter(a, b) == sortValue(b) - sortValue(a) > 0

RECURSIVE insertRanked(_, _)
\* x inserted into a sorted list, after every element it does not precede
insertRanked(sorted, x) ==
    IF sorted = <<>> THEN <<x>>
    ELSE IF comparesAfter(sorted[Len(sorted)], x)
         THEN Append(insertRanked(SubSeq(sorted, 1, Len(sorted) - 1), x),
                     sorted[Len(sorted)])
         ELSE Append(sorted, x)

RECURSIVE sortRanked(_)
\* Array.prototype.sort (stable) with the comparator above
sortRanked(es) ==
    IF es = <<>> THEN <<>>
    ELSE insertRanked(sortRanked(SubSeq(es, 1, Len(es) - 1)), es[Len(es)])

\* .map((entry, index) => ({ ...entry, rank: index + 1 }))
withRanks(es) == [i \in 1..Len(es) |-> [es[i] EXCEPT !.rank = i]]

hasTci(entry) == entry.tci # Null

calculateTCIRankings(data) ==
    withRanks(sortRanked(
        [i \in 1..Len(SelectSeq(data, hasTci)) |->
            TCIEntry(SelectSeq(data, hasTci)[i])]))

\* entry[key] !== null && typeof entry[key] === 'number'
hasScore(entry, benchmarkKey) ==
    /\ benchmarkKey \in DOMAIN entry.score
    /\ IsNum(entry.score[benchmarkKey])

scoredOn(data, benchmarkKey) ==
    LET scored(entry) == hasScore(entry, benchmarkKey)
    IN  SelectSeq(data, scored)

calculateBenchmarkRankings(data, benchmarkKey) ==
    withRanks(sortRanked(
        [i \in 1..Len(scoredOn(data, benchmarkKey)) |->
            RankingEntry(scoredOn(data, benchmarkKey)[i], benchmarkKey)]))

\* a TCIEntry in the RankingEntry format
asRankingEntry(entry) ==
    [rank |-> entry.rank,
     model |-> entry.model,
     provider |-> entry.provider,
     score |-> entry.tci,
     error |-> entry.error,
     isNew |-> entry.rank <= TOP_RANKINGS_COUNT]

calculateRankings(data, benchmarkKey) ==
    IF benchmarkKey = "tci"
    THEN [i \in 1..Len(calculateTCIRankings(data)) |->
             asRankingEntry(calculateTCIRankings(data)[i])]
    ELSE calculateBenchmarkRankings(data, benchmarkKey)

\* a leaderboard entry as the rankings read it
Ranked(model, rank, tci, tci_stderr, teleqna) ==
    [model |-> model, provider |-> "P", rank |-> rank, tci |-> tci,
     tci_stderr |-> tci_stderr, score |-> [teleqna |-> teleqna]]

\* entries with and without a TCI, with and without its standard error, two
\* of them with the same TCI
RankedEntries ==
    {Ranked("a", 1, Num(Pct(120)), Num(Tenths(15)), Num(Pct(80))),
     Ranked("b", 2, Num(Pct(90)), Null, Num(Pct(85))),
     Ranked("c", 4, Null, Null, Num(Pct(40))),
     Ranked("d", 5, Num(Pct(120)), Null, Null),
     Ranked("e", 3, Num(Pct(105)), Num(Pct(2)), Num(Pct(85))),
     Ranked("f", 6, Null, Num(Pct(1)), Null)}

RankingInputs == UNION {[1..n -> RankedEntries] : n \in 0..MaxEntries}

RankingKeys == {"tci", "teleqna"}

InitRankings ==
    /\ cfg = IRT_CONFIG
    /\ rows = <<>>
    /\ pc = "idle"
    /\ call = NoCall
    /\ entries = <<>>
    /\ entries0 = <<>>
    /\ opt = NoOpt
    /\ shadow = NoOpt
    /\ trace = <<>>
    /\ firstFit = NoFit
    /\ irtParams = NoParams
    /\ probe = NoProbe
    /\ regData = <<>>
    /\ regFit = NoRegFit
    /\ band = NoBand
    /\ forecast = NoForecast
    /\ frontierArgs = NoFrontierArgs
    /\ frontier = NoFrontier
    /\ objective = NoObjective
    /\ rankings \in {[NoRankings EXCEPT !.data = d] : d \in RankingInputs}
    /\ hook = NoHook
    /\ dropdown = NoDropdown

\* a page computes the TCI ranking of its data and the ranking for a key
ComputeRankings ==
    /\ rankings.k = "none"
    /\ \E benchmarkKey \in RankingKeys :
        rankings' = [k |-> "done", data |-> rankings.data,
                     benchmarkKey |-> benchmarkKey,
                     tci |-> calculateTCIRankings(rankings.data),
                     unified |-> calculateRankings(rankings.data, benchmarkKey)]
    /\ UNCHANGED <<irtVars, regVars, frontierVars, hook, dropdown>>

NextRankings == ComputeRankings

SpecRankings == InitRankings /\ [][NextRankings]_vars

-----------------------------------------------------------------------------
(* hooks/useLeaderboardData.ts.  hook holds the three states of a component *)
(* that uses the hook and the position of the promise chain its effect      *)
(* starts: fetching, response (the first then), parsing (response.json()),  *)
(* json (the second then), rejected (the catch), done.  An error state is   *)
(* <<>> for null or <<message>>; a response body is <<>> when it is not     *)
(* JSON, else <<value>>.  React drops the updates of an unmounted component.*)

\* the message of the Error the first then throws
FailedToLoad == "Failed to load leaderboard data"

\* the messages of the errors of fetch, response.json() and the transform
FetchMessages == {"Failed to fetch"}

JsonMessage == "Unexpected token"

TransformMessages == {"Cannot read properties of undefined"}

\* the JSON values a response carries: lists of model names
JsonValues == UNION {[1..n -> {"a", "b", "c"}] : n \in 0..MaxEntries}

ResponseBodies == {<<>>} \cup {<<v>> : v \in JsonValues}

\* transformHuggingFaceData(jsonData) is not among the sources: it returns
\* an array, here of one entry per element, or throws
TransformOutcomes(jsonData) ==
    {[threw |-> FALSE, value |-> jsonData, message |-> ""]}
    \cup {[threw |-> TRUE, value |-> <<>>, message |-> m] : m \in TransformMessages}

\* a state setter called with v: no update once the component is unmounted
setState(h, field, v) == IF h.mounted THEN [h EXCEPT ![field] = v] ELSE h

\* useState([]), useState(true), useState(null) of the first render
hookInitial ==
    [NoHook EXCEPT !.phase = "rendered", !.mounted = TRUE, !.loading = TRUE]

InitHook ==
    /\ cfg = IRT_CONFIG
    /\ rows = <<>>
    /\ pc = "idle"
    /\ call = NoCall
    /\ entries = <<>>
    /\ entries0 = <<>>
    /\ opt = NoOpt
    /\ shadow = NoOpt
    /\ trace = <<>>
    /\ firstFit = NoFit
    /\ irtParams = NoParams
    /\ probe = NoProbe
    /\ regData = <<>>
    /\ regFit = NoRegFit
    /\ band = NoBand
    /\ forecast = NoForecast
    /\ frontierArgs = NoFrontierArgs
    /\ frontier = NoFrontier
    /\ objective = NoObjective
    /\ rankings = NoRankings
    /\ hook = hookInitial
    /\ dropdown = NoDropdown

hookFrame == <<irtVars, regVars, frontierVars, rankings, dropdown>>

\* the effect of the first render calls fetch
HookEffect ==
    /\ hook.phase = "rendered"
    /\ hook.mounted
    /\ hook' = [hook EXCEPT !.phase = "fetching"]
    /\ UNCHANGED hookFrame

\* fetch resolves with a response
FetchResolves ==
    /\ hook.phase = "fetching"
    /\ \E ok \in BOOLEAN, body \in ResponseBodies :
        hook' = [hook EXCEPT !.phase = "response",
                             !.response = <<[ok |-> ok, body |-> body]>>]
    /\ UNCHANGED hookFrame

\* fetch rejects (no network)
FetchRejects ==
    /\ hook.phase = "fetching"
    /\ \E m \in FetchMessages :
        hook' = [hook EXCEPT !.phase = "rejected", !.thrown = <<m>>]
    /\ UNCHANGED hookFrame

\* the first then: throws on a response that is not ok, else reads the body
onResponse(h) ==
    IF ~h.response[1].ok
    THEN [h EXCEPT !.phase = "rejected", !.thrown = <<FailedToLoad>>]
    ELSE [h EXCEPT !.phase = "parsing"]

OnResponse ==
    /\ hook.phase = "response"
    /\ hook' = onResponse(hook)
    /\ UNCHANGED hookFrame

\* response.json() settles: the value of the body, or a SyntaxError
JsonSettles ==
    /\ hook.phase = "parsing"
    /\ hook' = IF hook.response[1].body = <<>>
               THEN [hook EXCEPT !.phase = "rejected", !.thrown = <<JsonMessage>>]
               ELSE [hook EXCEPT !.phase = "json",
                                 !.jsonData = hook.response[1].body]
    /\ UNCHANGED hookFrame

\* the second then: setData(transformHuggingFaceData(jsonData)); setLoading(false)
onJson(h, outcome) ==
    IF outcome.threw
    THEN [h EXCEPT !.phase = "rejected", !.thrown = <<outcome.message>>]
    ELSE [setState(setState(h, "data", outcome.value), "loading", FALSE)
             EXCEPT !.phase = "done"]

OnJson ==
    /\ hook.phase = "json"
    /\ \E outcome \in TransformOutcomes(hook.jsonData[1]) :
        hook' = onJson(hook, outcome)
    /\ UNCHANGED hookFrame

\* mutant: the catch leaves loading as it is
onRejectedKeepsLoading(h) == [setState(h, "error", h.thrown) EXCEPT !.phase = "done"]

\* the catch: setError(err.message); setLoading(false)
onRejected(h) ==
    [setState(setState(h, "error", h.thrown), "loading", FALSE)
        EXCEPT !.phase = "done"]

OnRejected ==
    /\ hook.phase = "rejected"
    /\ hook' = onRejected(hook)
    /\ UNCHANGED hookFrame

\* the component leaves the page; the hook has no cleanup
HookUnmount ==
    /\ hook.mounted
    /\ hook.phase # "rendered"
    /\ hook' = [hook EXCEPT !.mounted = FALSE]
    /\ UNCHANGED hookFrame

\* the steps of the promise chain
HookChain ==
    \/ OnResponse
    \/ JsonSettles
    \/ OnJson
    \/ OnRejected

\* the steps of the network
FetchSettles ==
    \/ FetchResolves
    \/ FetchRejects

NextHook ==
    \/ HookEffect
    \/ FetchSettles
    \/ HookChain
    \/ HookUnmount

SpecHook == InitHook /\ [][NextHook]_vars

\* the effect runs after the first render and a settled promise runs its
\* callbacks; nothing makes a fetch settle or a component unmount
SpecHookFair == SpecHook /\ WF_vars(HookEffect) /\ WF_vars(HookChain)

-----------------------------------------------------------------------------
(* theme/Navbar/index.tsx: Dropdown.  dropdown holds isOpen, the timer id   *)
(* in closeTimeoutRef (0 for null), the pending timers of the page as       *)
(* records [id, due], the position of the pointer and the clock.  The       *)
(* browser sends mouseenter when the pointer comes inside the element and   *)
(* mouseleave when it goes outside; a timer runs its callback when its time *)
(* has come, before the clock goes on.  Times are counted in clock ticks.   *)

ClockTickMs == 100

\* the delay of the setTimeout of handleMouseLeave
CloseDelayMs == 200

CloseDelay == CloseDelayMs \div ClockTickMs

\* the id setTimeout returns: one that no pending timer has
freshTimerId(d) ==
    CHOOSE id \in 1..(Cardinality(d.timers) + 1) :
        \A t \in d.timers : t.id # id

\* clearTimeout(id)
clearTimeout(timers, id) == {t \in timers : t.id # id}

\* mutant: the handler opens the menu and leaves the timer
handleMouseEnterKeepsTimer(d) == [d EXCEPT !.isOpen = TRUE]

handleMouseEnter(d) ==
    [d EXCEPT !.timers = IF d.closeTimeoutRef # 0
                         THEN clearTimeout(d.timers, d.closeTimeoutRef)
                         ELSE d.timers,
              !.closeTimeoutRef = 0,
              !.isOpen = TRUE]

handleMouseLeave(d) ==
    [d EXCEPT !.timers = d.timers \cup {[id |-> freshTimerId(d),
                                         due |-> d.now + CloseDelay]},
              !.closeTimeoutRef = freshTimerId(d)]

\* the callback of the timer; the state of an unmounted component is gone
closeCallback(d) ==
    [d EXCEPT !.isOpen = IF d.mounted THEN FALSE ELSE d.isOpen,
              !.closeTimeoutRef = 0]

\* the cleanup of the effect
cleanup(d) ==
    [d EXCEPT !.timers = IF d.closeTimeoutRef # 0
                         THEN clearTimeout(d.timers, d.closeTimeoutRef)
                         ELSE d.timers,
              !.mounted = FALSE]

\* the first render: closed, no timer; the pointer is anywhere
DropdownInitial ==
    {[NoDropdown EXCEPT !.mounted = TRUE, !.inside = inside] : inside \in BOOLEAN}

InitDropdown ==
    /\ cfg = IRT_CONFIG
    /\ rows = <<>>
    /\ pc = "idle"
    /\ call = NoCall
    /\ entries = <<>>
    /\ entries0 = <<>>
    /\ opt = NoOpt
    /\ shadow = NoOpt
    /\ trace = <<>>
    /\ firstFit = NoFit
    /\ irtParams = NoParams
    /\ probe = NoProbe
    /\ regData = <<>>
    /\ regFit = NoRegFit
    /\ band = NoBand
    /\ forecast = NoForecast
    /\ frontierArgs = NoFrontierArgs
    /\ frontier = NoFrontier
    /\ objective = NoObjective
    /\ rankings = NoRankings
    /\ hook = NoHook
    /\ dropdown \in DropdownInitial

dropdownFrame == <<irtVars, regVars, frontierVars, rankings, hook>>

\* the pointer comes inside the dropdown
MouseEnter ==
    /\ dropdown.mounted
    /\ ~dropdown.inside
    /\ dropdown' = [handleMouseEnter(dropdown) EXCEPT !.inside = TRUE]
    /\ UNCHANGED dropdownFrame

\* the pointer goes outside the dropdown
MouseLeave ==
    /\ dropdown.mounted
    /\ dropdown.inside
    /\ dropdown.now + CloseDelay <= MaxClock
    /\ dropdown' = [handleMouseLeave(dropdown) EXCEPT !.inside = FALSE,
                                                      !.leftAt = dropdown.now]
    /\ UNCHANGED dropdownFrame

\* a timer whose time has come runs its callback
TimerExpires ==
    /\ \E t \in dropdown.timers :
        /\ t.due <= dropdown.now
        /\ dropdown' = [closeCallback(dropdown) EXCEPT !.timers = dropdown.timers \ {t}]
    /\ UNCHANGED dropdownFrame

\* the clock goes on when no timer is due
ClockTick ==
    /\ dropdown.now < MaxClock
    /\ \A t \in dropdown.timers : t.due > dropdown.now
    /\ dropdown' = [dropdown EXCEPT !.now = dropdown.now + 1]
    /\ UNCHANGED dropdownFrame

\* the navbar leaves the page
DropdownUnmount ==
    /\ dropdown.mounted
    /\ dropdown' = cleanup(dropdown)
    /\ UNCHANGED dropdownFrame

NextDropdown ==
    \/ MouseEnter
    \/ MouseLeave
    \/ TimerExpires
    \/ ClockTick
    \/ DropdownUnmount

SpecDropdown == InitDropdown /\ [][NextDropdown]_vars

\* time passes and a due timer runs
SpecDropdownFair ==
    SpecDropdown /\ WF_vars(ClockTick) /\ WF_vars(TimerExpires)

-----------------------------------------------------------------------------
(* Claims about the loop of optimize *)

\* the iterations made so far: trace[k] are the locals when iteration k - 1
\* has ended
Iterations == 2..Len(trace)

\* the loss of iteration k is greater than the previous one
LossRose(k) ==
    /\ IsNum(trace[k].loss)
    /\ IsNum(trace[k - 1].prevLoss)
    /\ trace[k].loss.v > trace[k - 1].prevLoss.v

\* the loss of iteration k is below the previous one by more than 1e-6
LossFell(k) ==
    /\ IsNum(trace[k].loss)
    /\ \/ trace[k - 1].prevLoss = Inf
       \/ /\ IsNum(trace[k - 1].prevLoss)
          /\ trace[k - 1].prevLoss.v - trace[k].loss.v >= 1

Half(x) == MulFP(x, Scale \div 2)

\* the momentum update of component i at iteration k from the velocity v
MomentumUpdate(k, i, v) ==
    MulFP((9 * Scale) \div 10, v) - MulFP(trace[k].learningRate, trace[k].gradient[i])

\* C21: the learning rate starts at 0.1; on a loss greater than the previous
\* one it is halved and every velocity component is halved (before the
\* momentum update); on a loss improved by more than 1e-6 it is multiplied
\* by 1.05 and capped at 0.5; otherwise it is unchanged; it is always in
\* (0, 0.5]
C21_LearningRateRule ==
    trace # <<>> =>
        /\ trace[1].learningRate = Scale \div 10
        /\ \A k \in Iterations :
            /\ trace[k].learningRate > 0
            /\ trace[k].learningRate <= Scale \div 2
            /\ IF LossRose(k)
               THEN /\ trace[k].learningRate = Half(trace[k - 1].learningRate)
                    /\ \A i \in 1..Len(trace[k].velocity) :
                        trace[k].velocity[i]
                            = MomentumUpdate(k, i, Half(trace[k - 1].velocity[i]))
               ELSE IF LossFell(k)
               THEN /\ trace[k].learningRate
                        = Min(MulFP(trace[k - 1].learningRate, (105 * Scale) \div 100),
                              Scale \div 2)
                    /\ \A i \in 1..Len(trace[k].velocity) :
                        trace[k].velocity[i]
                            = MomentumUpdate(k, i, trace[k - 1].velocity[i])
               ELSE trace[k].learningRate = trace[k - 1].learningRate

\* a run that reached the cap, was halved from it, and grew again
C21_Witness ==
    /\ pc = "done"
    /\ call.kind = "optimize"
    /\ \E k \in Iterations :
        /\ LossFell(k)
        /\ trace[k - 1].learningRate < Scale \div 2
        /\ MulFP(trace[k - 1].learningRate, (105 * Scale) \div 100) > Scale \div 2
        /\ trace[k].learningRate = Scale \div 2
    /\ \E k \in Iterations :
        /\ LossRose(k)
        /\ trace[k - 1].learningRate = Scale \div 2
        /\ trace[k].learningRate = Scale \div 4
        /\ trace[k - 1].velocity[1] # 0

\* the gradient norm of iteration k is below 1e-6
GradientVanished(k) ==
    /\ IsNum(trace[k].loss)
    /\ \A i \in 1..Len(trace[k].gradient) : trace[k].gradient[i] = 0

\* the loss of iteration k differs from the previous one by less than 1e-8
LossSettled(k) ==
    /\ IsNum(trace[k].loss)
    /\ IsNum(trace[k - 1].prevLoss)
    /\ trace[k].loss.v = trace[k - 1].prevLoss.v

\* the iterations are at most maxIterations, and the loop stops at the first
\* iteration with a vanishing gradient or a settled loss, and at no other
\* before maxIterations
BoundedIterations ==
    /\ Len(trace) - 1 <= cfg.maxIterations
    /\ opt.iter = Len(trace) - 1
    /\ \A k \in Iterations :
        /\ trace[k].stopped <=> (GradientVanished(k) \/ LossSettled(k))
        /\ trace[k].stopped => k = Len(trace)
    /\ pc = "done" =>
        \/ trace[Len(trace)].stopped
        \/ Len(trace) - 1 = cfg.maxIterations

\* C22: optimize terminates: it makes at most maxIterations iterations for
\* any objective, a NaN loss included, and it stops at the first iteration
\* where the gradient norm is below 1e-6 or the loss changed by less than
\* 1e-8
C22_OptimizeTerminates ==
    /\ [](call.kind = "optimize" => BoundedIterations)
    /\ <>(pc = "done")

\* a run on a NaN loss that ended after maxIterations iterations, never
\* having stopped
C22_Witness ==
    /\ pc = "done"
    /\ call.kind = "optimize"
    /\ objective.losses = NotANumber
    /\ Len(trace) - 1 = cfg.maxIterations
    /\ \A k \in Iterations : trace[k].loss = NaN /\ ~trace[k].stopped

-----------------------------------------------------------------------------
(* Claims about the intervals of fewer than three points.                   *)

ZeroWidth(p) ==
    /\ p.upper = p.regressionTCI
    /\ p.lower = p.regressionTCI
    /\ p.upperPred = p.regressionTCI
    /\ p.lowerPred = p.regressionTCI

\* the positions at which the chart asks for the band of the data
BandPositions(pad) ==
    {positionAt(FSub(minDateOf(regData), FromInt(pad)), k - 1,
                FDiv(FSub(FAdd(lastDataDateOf(regData), FromInt(pad)),
                          FSub(minDateOf(regData), FromInt(pad))),
                     FromInt(BandPoints - 1))) : k \in 1..BandPoints}

\* C23 as stated: with fewer than 3 data points that have a fit, the band of
\* the chart is present and each of its points has upper = lower =
\* upperPred = lowerPred = the fitted value
C23_FewPointsZeroWidthBand ==
    (band.k = "done" /\ Len(regData) < 3 /\ regFit.k = "fit") =>
        /\ Len(band.points) = BandPoints
        /\ \A i \in 1..Len(band.points) : ZeroWidth(band.points[i])

\* C23: with fewer than 3 data points the standard error and the prediction
\* error are 0 at every position, so that a band point computed there has
\* upper = lower = upperPred = lowerPred = the fitted value, and the band
\* that generateCombinedRegressionData returns is empty
C23_FewPointsZeroErrorsEmptyBand ==
    (band.k = "done" /\ Len(regData) < 3 /\ regFit.k = "fit") =>
        /\ \A pad \in PadChoices : \A x \in BandPositions(pad) :
              /\ calculateStandardErrorAtX(x, regData, regFit) = FZero
              /\ calculatePredictionErrorAtX(x, regData, regFit) = FZero
              /\ ZeroWidth(bandPointAt(x, regData, regFit))
        /\ band.points = <<>>

\* two points of different dates: a fit exists and the band has been asked for
C23_Witness ==
    /\ band.k = "done"
    /\ Len(regData) = 2
    /\ regData[1].releaseDate # regData[2].releaseDate
    /\ regFit.k = "fit"
    /\ band.points = <<>>

-----------------------------------------------------------------------------
(* Claims about the rankings.                                               *)

WithTci == SelectSeq(rankings.data, hasTci)

\* the ways to match the ranking's entries with the kept entries one to one
Matchings(n) == {f \in [1..n -> 1..n] : \A i, j \in 1..n : f[i] = f[j] => i = j}

SameRanking(a, b) ==
    /\ Len(a) = Len(b)
    /\ \A i \in 1..Len(a) :
          /\ a[i].model = b[i].model
          /\ a[i].rank = b[i].rank
          /\ a[i].tci = b[i].score
          /\ a[i].error = b[i].error

\* C24: calculateTCIRankings returns exactly the entries whose tci is not
\* null, ordered by tci descending, with the ranks 1, 2, ..., k in that order,
\* and calculateRankings(data, 'tci') returns the same models in the same
\* order with the same rank, score and error
C24_TciRankings ==
    rankings.k = "done" =>
        /\ Len(rankings.tci) = Len(WithTci)
        /\ \E f \in Matchings(Len(WithTci)) :
              \A i \in 1..Len(WithTci) :
                  /\ rankings.tci[i].model = WithTci[f[i]].model
                  /\ rankings.tci[i].provider = WithTci[f[i]].provider
                  /\ rankings.tci[i].tci = WithTci[f[i]].tci.v
        /\ \A i, j \in 1..Len(rankings.tci) :
              i < j => rankings.tci[i].tci >= rankings.tci[j].tci
        /\ \A i \in 1..Len(rankings.tci) : rankings.tci[i].rank = i
        /\ rankings.benchmarkKey = "tci" => SameRanking(rankings.tci, rankings.unified)

\* a ranking of 'tci' that drops an entry without a TCI and puts the last of
\* the data first
C24_Witness ==
    /\ rankings.k = "done"
    /\ rankings.benchmarkKey = "tci"
    /\ Len(rankings.data) = 3
    /\ Len(rankings.unified) = 2
    /\ rankings.unified[1].model = rankings.data[3].model
    /\ rankings.unified[1].score > rankings.unified[2].score
    /\ rankings.unified[2].error = calculateError(rankings.unified[2].score, "tci")

-----------------------------------------------------------------------------
(* Claims about the result of transformLeaderboardData.                     *)

Transformed == Returned /\ call.kind = "transform"

\* C25: transformLeaderboardData returns one entry per input row, sorted by
\* mean descending with the entries without a mean last, and each entry's rank
\* is its position + 1
C25_OneEntryPerRowSortedByMean ==
    Transformed =>
        /\ Len(entries) = Len(rows)
        /\ \E f \in Matchings(Len(rows)) :
              \A i \in 1..Len(rows) :
                  /\ SameRecord(entries[i], rowToEntry(rows[f[i]]))
                  /\ entries[i].mean = rowToEntry(rows[f[i]]).mean
        /\ \A i, j \in 1..Len(entries) :
              i < j =>
                  /\ entries[i].mean = Null => entries[j].mean = Null
                  /\ (entries[i].mean # Null /\ entries[j].mean # Null)
                        => entries[i].mean.v >= entries[j].mean.v
        /\ \A i \in 1..Len(entries) : entries[i].rank = i

\* a row without scores came first and its entry is last
C25_Witness ==
    /\ Transformed
    /\ Len(rows) = 2
    /\ rowToEntry(rows[1]).mean = Null
    /\ entries[1].mean # Null
    /\ entries[1].model = rowToEntry(rows[2]).model
    /\ entries[2].mean = Null
    /\ entries[2].rank = 2

\* two rows with scores, the second with the higher mean
C25_WitnessSwapped ==
    /\ Transformed
    /\ Len(rows) = 2
    /\ entries[1].mean # Null
    /\ entries[2].mean # Null
    /\ entries[1].mean.v > entries[2].mean.v
    /\ entries[1].model = rowToEntry(rows[2]).model

-----------------------------------------------------------------------------
(* Claims about the pair tci, tci_stderr.                                   *)

\* calculateAllTCI(entries, false) has returned
RescoredAll == Returned /\ call.kind = "calcAll" /\ ~call.preserveExisting

\* C26: after calculateAllTCI(entries, false) every entry has tci = null
\* exactly when it has tci_stderr = null
C26_TciNullIffStderrNull ==
    RescoredAll =>
        \A i \in 1..Len(entries) :
            entries[i].tci = Null <=> entries[i].tci_stderr = Null

\* an entry that came with a tci and no standard error now has both, and an
\* entry that came with both now has none
C26_Witness ==
    /\ RescoredAll
    /\ \E i \in 1..Len(entries) :
          /\ entries0[i].tci # Null
          /\ entries0[i].tci_stderr = Null
          /\ IsNum(entries[i].tci)
          /\ IsNum(entries[i].tci_stderr)
    /\ \E j \in 1..Len(entries) :
          /\ entries0[j].tci # Null
          /\ entries0[j].tci_stderr # Null
          /\ entries[j].tci = Null
          /\ entries[j].tci_stderr = Null

-----------------------------------------------------------------------------
(* Claims about the order of the forecast series.                           *)

TimestampAt(i) == forecast.forecastData[i].releaseDate

FlaggedAt(i) == forecast.forecastData[i].isForecast

\* timestamps never decrease and no forecast point precedes a historical one
SeriesInOrder ==
    \A i, j \in 1..SeriesLen :
        i < j =>
            /\ FLeq(TimestampAt(i), TimestampAt(j))
            /\ FlaggedAt(i) => FlaggedAt(j)

-----------------------------------------------------------------------------
(* Claims about the capability map.                                         *)

\* the capability optimize fitted for row i of the score matrix, 0 when
\* fitIRTParameters returned the default parameters
FittedCapability(i) ==
    IF takesDefaultPath(entries0) THEN 0
    ELSE extractParams(
             optimizeResult(opt, Matrix, fitRegularization(Matrix)).params,
             NBench).C[i]

\* C28: for every input list of fitIRTParameters, lists in which two records
\* share a model name included, the capability map has nModels entries and
\* each record's entry is the capability fitted for the record's own row
C28_CapabilityPerRecord ==
    pc = "fitted" =>
        /\ Cardinality(DOMAIN irtParams.capability) = irtParams.nModels
        /\ \A i \in 1..Len(entries0) :
              irtParams.capability[entries0[i].model] = FittedCapability(i)

-----------------------------------------------------------------------------
(* Claims about useLeaderboardData.                                         *)

\* the promise of fetch has settled
FetchSettled == hook.phase \in {"response", "parsing", "json", "rejected", "done"}

\* the states of the hook before the chain has ended
HookLoading == hook.loading /\ hook.data = <<>> /\ hook.error = NoError

\* the two final states: the data set and no error, or an error and no data
HookFinal ==
    /\ ~hook.loading
    /\ IF hook.thrown = <<>>
       THEN hook.error = NoError /\ hook.data = hook.jsonData[1]
       ELSE hook.error = hook.thrown /\ hook.error # NoError /\ hook.data = <<>>

HookStates ==
    hook.mounted => IF hook.phase = "done" THEN HookFinal ELSE HookLoading

\* C29: useLeaderboardData starts with loading = true, data = [] and error =
\* null; once the fetch has settled (success, HTTP failure, JSON failure or a
\* failure inside the transform) loading becomes false and never returns to
\* true, and the state of the mounted component is then one of two: the data
\* set with error = null, or an error with data still empty
C29_HookLifecycle ==
    /\ hook.phase = "rendered" /\ HookLoading
    /\ []HookStates
    /\ [][~hook.loading => ~hook'.loading]_vars
    /\ (FetchSettled /\ hook.mounted) ~> (~hook.loading \/ ~hook.mounted)

\* the transform threw on the JSON of an ok response: an error and no data
C29_Witness ==
    /\ hook.mounted
    /\ hook.phase = "done"
    /\ hook.jsonData # <<>>
    /\ hook.response[1].ok
    /\ Len(hook.jsonData[1]) > 0
    /\ hook.error \in {<<m>> : m \in TransformMessages}
    /\ hook.data = <<>>
    /\ ~hook.loading

-----------------------------------------------------------------------------
(* Claims about the Dropdown of the navbar.                                 *)

\* the menu is open and the pointer has left the mounted dropdown
OpenOutside == dropdown.mounted /\ dropdown.isOpen /\ ~dropdown.inside

\* the step closes the menu
Closes == dropdown.isOpen /\ ~dropdown'.isOpen

\* the pending timer is the one of the last leave
TimerOfLastLeave ==
    /\ dropdown.timers = {[id |-> dropdown.closeTimeoutRef,
                           due |-> dropdown.leftAt + CloseDelay]}
    /\ dropdown.now <= dropdown.leftAt + CloseDelay

====
